---- MODULE Spec2Model ----
(***************************************************************************)
(* Reply generation layer of omni_chat (src/chat.py): generate_reply and   *)
(* generate_reply_stream, the three provider adapters they dispatch to,    *)
(* the process environment the adapters read their keys from and the       *)
(* local Ollama daemon they probe.                                         *)
(*                                                                         *)
(* A Python string whose characters the code inspects (strip, lower,       *)
(* startswith) is a sequence of one-character strings; str(s) turns it     *)
(* into the text that is put into messages.  Texts the code only tests     *)
(* for truth and passes on (replies, tokens) are TLA+ strings.             *)
(***************************************************************************)
EXTENDS Integers, Sequences, FiniteSets, TLC

VARIABLES
    environ,      \* os.environ restricted to the key variables: name -> value
    dotenv,       \* the .env file of EnvironmentManager: name -> value
    key_ops,      \* what the settings API last did to each provider's key
    sdk,          \* the client libraries that were importable (OpenAI, genai, requests)
    daemon,       \* TRUE while the Ollama daemon answers on localhost:11434
    start,        \* the call of start_ollama_server in progress: position, steps, result
    history,      \* the history handed to an adapter
    params,       \* the params mapping handed to an adapter
    payload,      \* the request the adapter has built for its provider
    family,       \* the family the model name was classified as
    req,          \* the call in flight: fn, provider, model, message
    pc,           \* position of the call in flight
    content,      \* value returned by the non-streaming adapter
    had_content,  \* local of generate_reply_stream
    left,         \* chunks the backend may still send on the open stream
    result,       \* <<ChatReply>> once generate_reply has returned, else <<>>
    raised,       \* <<exception>> once an exception has left the call, else <<>>
    events,       \* the StreamChunks generate_reply_stream has yielded so far
    log,          \* what the call has touched: credential reads, probes, adapters, backends
    providers_json, \* static/providers.json as json.load reads it, or why it cannot be read
    boot,         \* the run of initialize_ollama_with_app: position, locals, outcome
    listing,      \* the last call of get_ollama_models: what it met, what it returned
    fav,          \* the last request to /api/favorites and its response
    fs,           \* the directory of providers.json: its paths and the files they name
    io,           \* the threads writing and reading providers.json: position, locals
    db,           \* the SQLite database as committed: chats, messages, tasks
    tx,           \* the open connection's view of the database, <<>> when none is open
    http          \* the request being served by api_chat or api_execute_task, and its response

\* what an adapter is handed and what it builds from it
wire == <<history, params, payload, family>>

\* the provider registry the web layer serves
registry == <<providers_json, boot, listing, fav>>

\* what the other parts of the web layer keep
others == <<fs, io, db, tx, http>>

web == <<registry, others>>

\* the generation calls, the credentials and the daemon
core == <<environ, dotenv, key_ops, sdk, daemon, start, wire, req, pc, content,
          had_content, left, result, raised, events, log>>

vars == <<environ, dotenv, key_ops, sdk, daemon, start, wire, req, pc, content,
          had_content, left, result, raised, events, log, web>>

-----------------------------------------------------------------------------
(* Bounds *)

\* chunks a backend sends on one stream before it must end or fail
MaxChunks == 2

-----------------------------------------------------------------------------
(* Python values *)

None == "<None>"

\* truth value of an Optional[str]
Truthy(x) == x # None /\ x # ""

RECURSIVE str(_)
str(s) == IF s = <<>> THEN "" ELSE Head(s) \o str(Tail(s))

isspace(c) == c \in {" ", "\t", "\n"}

RECURSIVE lstrip(_)
lstrip(s) == IF s # <<>> /\ isspace(Head(s)) THEN lstrip(Tail(s)) ELSE s

RECURSIVE rstrip(_)
rstrip(s) ==
    IF s # <<>> /\ isspace(s[Len(s)]) THEN rstrip(SubSeq(s, 1, Len(s) - 1)) ELSE s

strip(s) == rstrip(lstrip(s))

lower_char(c) ==
    CASE c = "A" -> "a" [] c = "E" -> "e" [] c = "G" -> "g" [] c = "I" -> "i"
      [] c = "L" -> "l" [] c = "M" -> "m" [] c = "N" -> "n" [] c = "O" -> "o"
      [] c = "P" -> "p" [] c = "T" -> "t" [] c = "U" -> "u"
      [] OTHER -> c

lower(s) == [i \in 1..Len(s) |-> lower_char(s[i])]

startswith(s, prefix) ==
    Len(s) >= Len(prefix) /\ SubSeq(s, 1, Len(prefix)) = prefix

-----------------------------------------------------------------------------
(* Inputs *)

Providers ==
    { <<>>,
      <<" ">>,
      <<" ", "O", "p", "e", "n", "A", "I">>,
      <<"g", "e", "m", "i", "n", "i">>,
      <<"O", "l", "l", "a", "m", "a", " ">>,
      <<"g", "r", "o", "k">> }

Models ==
    { <<>>,
      <<" ">>,
      <<"g", "p", "t", "-", "4">>,
      <<"O", "3", "-", "m", "i", "n", "i">> }

Messages == { <<" ">>, <<"h", "i">> }

KeyVars == {"OPENAI_API_KEY", "GEMINI_API_KEY"}

KeyValues ==
    { <<>>,
      <<"P", "U", "T", "_", "K", "E", "Y">>,
      <<"s", "k", "-", "1">> }

Functions == {"generate_reply", "generate_reply_stream"}

NoRequest == [fn |-> "none", provider |-> <<>>, model |-> <<>>, message |-> <<>>]

-----------------------------------------------------------------------------
(* Result types *)

ChatReply(reply, error, missing_key_for) ==
    [reply |-> reply, warning |-> None, error |-> error,
     missing_key_for |-> missing_key_for]

StreamChunk(token, error, missing_key_for) ==
    [token |-> token, warning |-> None, error |-> error,
     missing_key_for |-> missing_key_for]

Exc(cls, msg) == [cls |-> cls, msg |-> msg]

-----------------------------------------------------------------------------
(* Exceptions the backends raise *)

\* subclasses of requests.RequestException
RequestException == {"ConnectionError", "Timeout"}

\* subclasses of Exception (every class below; KeyboardInterrupt and the like are not)
Exception == RequestException \cup
             {"APIConnectionError", "ServiceUnavailable", "AttributeError", "OSError",
              "PermissionError", "Exception", "ValueError", "TypeError",
              "IntegrityError"}

BackendErrors(p) ==
    CASE p = "openai" -> {Exc("APIConnectionError", "Connection error.")}
      [] p = "gemini" -> {Exc("ServiceUnavailable", "503 unavailable")}
      [] p = "ollama" -> {Exc("Timeout", "read timed out"),
                          Exc("AttributeError", "'list' object has no attribute 'get'")}

\* the refusal a stopped daemon answers every request with
ConnectionRefused == Exc("ConnectionError", "connection refused")

-----------------------------------------------------------------------------
(* Credentials and daemon *)

key_mapping(provider) ==
    CASE provider = "openai" -> "OPENAI_API_KEY"
      [] provider = "gemini" -> "GEMINI_API_KEY"
      [] OTHER -> ""

\* the value of a variable that is not set (no string: it holds no character)
Unset == <<"<unset>">>

getenv(name, default) == IF environ[name] = Unset THEN default ELSE environ[name]

\* _get_api_key: the key variable's value, "" when unset, "local" for Ollama
get_api_key(provider) ==
    IF key_mapping(provider) = ""
    THEN <<"l", "o", "c", "a", "l">>
    ELSE getenv(key_mapping(provider), <<>>)

\* the guard of _openai_call copied into every adapter: `OpenAI is None`
client_of_openai_everywhere(provider) == "OpenAI"

\* the module-level name of provider's client library (OpenAI, genai, requests)
client_of(provider) ==
    CASE provider = "openai" -> "OpenAI"
      [] provider = "gemini" -> "genai"
      [] provider = "ollama" -> "requests"

\* the check without the placeholder test
key_missing_no_placeholder(key, client) ==
    \/ key = <<>>
    \/ client \notin sdk

\* `not key or key.startswith("PUT_") or <client> is None`
key_missing(key, client) ==
    \/ key = <<>>
    \/ startswith(key, <<"P", "U", "T", "_">>)
    \/ client \notin sdk

is_ollama_server_running == "requests" \in sdk /\ daemon

\* the provider name as the messages of generate_reply spell it
Name(p) ==
    CASE p = "openai" -> "OpenAI" [] p = "gemini" -> "Gemini" [] p = "ollama" -> "Ollama"

-----------------------------------------------------------------------------
(* Model families *)

\* the prefix test without `.lower()`
is_reasoning_model_case_sensitive(model) == startswith(model, <<"o", "3">>)

\* _is_reasoning_model, line 208
is_reasoning_model(model) == startswith(lower(model), <<"o", "3">>)

\* the exact identifiers of the live-search models
LiveModels == {"gpt-4.1-live", "gemini-2.5-pro-live"}

is_live_search_model(model) == str(model) \in LiveModels

\* the family of a model name: reasoning, live-search or standard
classify(model) ==
    IF is_reasoning_model(model) THEN "reasoning"
    ELSE IF is_live_search_model(model) THEN "live-search"
    ELSE "standard"

-----------------------------------------------------------------------------
(* What a backend may answer to one non-streaming request *)

dict_get(d, k, default) == IF k \in DOMAIN d THEN d[k] ELSE default

EmptyDict == <<>>

\* chat.completions.create: the choices, each the content of its message
OpenAIChatResponses == { [choices |-> <<>>] } \cup
                       { [choices |-> <<c>>] : c \in {None, "", "Hello"} }

\* responses.create: output_text, absent on some responses
OpenAIReasoningResponses == { EmptyDict } \cup
                            { [output_text |-> t] : t \in {"", "REASONED"} }

\* chat.send_message: text, the parts of each candidate and the finish reason;
\* a response that was blocked carries no text
GeminiResponses ==
    { [text |-> t, candidates |-> c, finish_reason |-> "STOP"] :
        t \in {"", "Hello"}, c \in {<<>>, << <<>> >>, << <<>>, <<"Part">> >>} } \cup
    { [text |-> "", candidates |-> c, finish_reason |-> r] :
        c \in {<<>>, << <<>> >>}, r \in {"SAFETY", "RECITATION"} }

\* requests.post(.../api/chat): status and JSON body
OllamaResponses ==
    { [status_code |-> 500, json |-> EmptyDict] } \cup
    { [status_code |-> 200, json |-> d] :
        d \in { EmptyDict, [message |-> EmptyDict] } \cup
              { [message |-> [content |-> c]] : c \in {"", "Hello"} } }

\* _openai_call, lines 263-274
openai_chat_result(resp) ==
    LET c == IF resp.choices # <<>> THEN resp.choices[1] ELSE None
    IN  IF Truthy(c) THEN c ELSE None

\* _openai_call, line 261
openai_reasoning_result(resp) == dict_get(resp, "output_text", None)

RECURSIVE first_parts(_)
first_parts(cands) ==
    IF cands = <<>> THEN None
    ELSE IF Head(cands) # <<>> THEN Head(cands)[1]
    ELSE first_parts(Tail(cands))

\* _gemini_call, lines 410-418
gemini_result(resp) ==
    IF Truthy(resp.text) THEN resp.text ELSE first_parts(resp.candidates)

\* _ollama_call, lines 491-496
ollama_result(resp) ==
    IF resp.status_code = 200
    THEN dict_get(dict_get(resp.json, "message", EmptyDict), "content", "")
    ELSE None

-----------------------------------------------------------------------------
(* Bookkeeping *)

Touch(op, on, got) == [op |-> op, on |-> on, got |-> got]

bool(b) == IF b THEN "True" ELSE "False"

\* provider.lower().strip(), as text
provider_lower == str(strip(lower(req.provider)))

\* `not s or not s.strip()`
blank(s) == s = <<>> \/ strip(s) = <<>>

\* load_dotenv(path, override=True): every variable of the file replaces the process's
load_dotenv(file, env) ==
    [k \in KeyVars |-> IF file[k] # Unset THEN file[k] ELSE env[k]]

\* the client libraries: all importable, or one of them missing
Libraries == {"OpenAI", "genai", "requests"}

Installations == {Libraries} \cup { Libraries \ {l} : l \in Libraries }

\* no call of start_ollama_server is in progress
NoStart == [pc |-> "idle", trace |-> <<>>, ret |-> None, raised |-> <<>>]

\* a provider entry of providers.json
Provider(id, name, models) == [id |-> id, name |-> name, models |-> models]

\* providers.json as a dict: the providers and the favourites (a missing key
\* reads as the empty list: data.get(key, []), data.setdefault(key, []))
Config(providers, favorites) ==
    [file |-> "json", providers |-> providers, favorites |-> favorites]

\* providers.json does not exist
FileMissing == [file |-> "missing", providers |-> <<>>, favorites |-> <<>>]

\* providers.json does not hold JSON
FileCorrupt == [file |-> "corrupt", providers |-> <<>>, favorites |-> <<>>]

\* static/providers_template.json, copied when providers.json does not exist
Template == Config(<<Provider("openai", "OpenAI", <<"gpt-4o">>),
                     Provider("gemini", "Gemini", <<"gemini-2.5-flash">>)>>, <<>>)

\* initialize_ollama_with_app has not run
NoBoot == [pc |-> "idle", prior |-> Template, data |-> Template, providers |-> <<>>, available |-> None,
           started |-> None, models |-> <<>>, wrote |-> <<>>, error |-> <<>>,
           raised |-> <<>>]

\* get_ollama_models has not been called
NoListing == [met |-> <<>>, ret |-> <<>>, raised |-> <<>>]

\* blocks a configuration is written in: what one flush of the file object holds
MaxBlocks == 2

\* the threads of the server that write the configuration, and the one reading it
Writers == {"w1", "w2"}

Readers == {"r"}

Threads == Writers \cup Readers

\* the files of the directory, by inode: one per path and open descriptor at most
Inodes == 1..(Cardinality(Threads) + 2)

\* a block of the text json.dump produces for one call: whose, how long, which
Block(of, len, at) == [of |-> of, len |-> len, at |-> at]

Dump(of, len) == [i \in 1..len |-> Block(of, len, i)]

\* the texts json.dump writes for the calls of a thread: one thread's are long,
\* the other's of any length
TextsOf(t) ==
    IF t = "w1" THEN { Dump("A", MaxBlocks) }
    ELSE { Dump("B", len) : len \in 1..MaxBlocks }

ConfigTexts == UNION { TextsOf(t) : t \in Writers }

TemplateDump == Dump("template", 1)

\* providers.json holds the template's copy, providers.json.tmp does not exist
NoFiles == [tmp |-> 0, target |-> 1,
            files |-> [i \in Inodes |-> IF i = 1 THEN TemplateDump ELSE <<>>]]

\* no thread is inside write_providers_json or load_providers_json
NoThread == [pc |-> "idle", text |-> <<>>, fd |-> 0, pos |-> 0, got |-> <<>>, raised |-> <<>>]

NoThreads == [t \in Threads |-> NoThread]

\* the tables init_db creates, empty: rows by id, messages in the order of their
\* ids, and the last id AUTOINCREMENT gave to a chat
NoTables == [chats |-> <<>>, messages |-> <<>>, tasks |-> <<>>, seq |-> 0]

\* no request is being served
NoHttp == [op |-> "none", pc |-> "idle", args |-> <<>>, status |-> 0, before |-> NoTables,
           pending |-> NoTables, reply |-> <<>>, raised |-> <<>>, served |-> <<>>]

\* no request to /api/favorites has been served
NoFavorite == [op |-> "none", key |-> "", status |-> 0, favorites |-> <<>>, before |-> <<>>]

\* the process starts without a .env file or with one whose keys are left empty
InitKeys ==
    /\ dotenv \in {[k \in KeyVars |-> Unset], [k \in KeyVars |-> <<>>]}
    /\ environ = load_dotenv(dotenv, [k \in KeyVars |-> Unset])
    /\ key_ops = [b \in {"openai", "gemini"} |-> [op |-> "none", value |-> <<>>]]
    /\ sdk \in Installations
    /\ daemon \in BOOLEAN

\* no call is in flight
InitCalls ==
    /\ start = NoStart
    /\ history = <<>>
    /\ params = EmptyDict
    /\ payload = None
    /\ family = None
    /\ req = NoRequest
    /\ pc = "idle"
    /\ content = None
    /\ had_content = FALSE
    /\ left = 0
    /\ result = <<>>
    /\ raised = <<>>
    /\ events = <<>>
    /\ log = <<>>

InitProcess == InitKeys /\ InitCalls

\* providers.json is the template's copy; nothing of the registry has run
InitConfig ==
    /\ providers_json = Template
    /\ boot = NoBoot
    /\ listing = NoListing
    /\ fav = NoFavorite
    /\ fs = NoFiles
    /\ io = NoThreads

\* the database is new and no request is being served
InitTables ==
    /\ db = NoTables
    /\ tx = <<>>
    /\ http = NoHttp

Init == InitProcess /\ InitConfig /\ InitTables

\* the web layer calls generate_reply or generate_reply_stream
Call(fn, provider, model, message) ==
    /\ pc = "idle"
    /\ start.pc = "idle"
    /\ req' = [fn |-> fn, provider |-> provider, model |-> model, message |-> message]
    /\ pc' = "validate"
    /\ content' = None
    /\ had_content' = FALSE
    /\ left' = 0
    /\ result' = <<>>
    /\ raised' = <<>>
    /\ events' = <<>>
    /\ log' = <<>>
    /\ UNCHANGED <<web, start, wire, environ, dotenv, key_ops, sdk, daemon>>

-----------------------------------------------------------------------------
(* How a step of the call ends *)

\* generate_reply returns r
Return(r) ==
    /\ result' = <<r>>
    /\ pc' = "done"
    /\ UNCHANGED <<raised, events, had_content>>

\* an exception leaves the call
Raise(e) ==
    /\ raised' = <<e>>
    /\ pc' = "done"
    /\ UNCHANGED <<result, events, had_content>>

\* the error chunk of the availability check without its `return`: the branch goes on
YieldError_no_return(error, missing_key_for) ==
    /\ events' = Append(events, StreamChunk(None, error, missing_key_for))
    /\ pc' = IF pc \in {"check", "probe"} THEN "stream" ELSE "done"
    /\ UNCHANGED <<result, raised, had_content>>

\* generate_reply_stream yields an error chunk; every such yield is followed by
\* `return` or by the end of the function
YieldError(error, missing_key_for) ==
    /\ events' = Append(events, StreamChunk(None, error, missing_key_for))
    /\ pc' = "done"
    /\ UNCHANGED <<result, raised, had_content>>

\* `if token: had_content = True ... yield StreamChunk(token=token)`, then on at next
YieldToken(token, next) ==
    /\ events' = IF Truthy(token) THEN Append(events, StreamChunk(token, None, None))
                 ELSE events
    /\ had_content' = (had_content \/ Truthy(token))
    /\ pc' = next
    /\ UNCHANGED <<result, raised>>

Goto(next) ==
    /\ pc' = next
    /\ UNCHANGED <<result, raised, events, had_content>>

\* an orchestrator that catches transport errors only
except_RequestException(e) == e.cls \in RequestException

\* `except Exception as e` of generate_reply and generate_reply_stream
except_Exception(e) == e.cls \in Exception

\* f"{e.__class__.__name__}: {e}"
repr(e) == e.cls \o ": " \o e.msg

\* f"<Provider> error: {e.__class__.__name__}: {e}"
error_text(p, e) == Name(p) \o " error: " \o repr(e)

\* an exception e reaches the try block of the orchestrator's provider branch
Except(p, e) ==
    IF except_Exception(e)
    THEN IF req.fn = "generate_reply"
         THEN Return(ChatReply("", error_text(p, e), None))
         ELSE YieldError(error_text(p, e), None)
    ELSE Raise(e)

-----------------------------------------------------------------------------
(* generate_reply *)

\* the message without the offending name
unknown_provider_unnamed(provider) == "unknown provider"

\* line 696 (and, as an event's text, line 816)
unknown_provider(provider) == "unknown provider: " \o str(provider)

\* lines 637-646, 663, 679, 695-696: validation and dispatch
generate_reply ==
    /\ pc = "validate"
    /\ req.fn = "generate_reply"
    /\ UNCHANGED <<web, start, wire, environ, dotenv, key_ops, sdk, daemon, req, content, left, log>>
    /\ IF blank(req.provider)
       THEN Raise(Exc("ValueError", "provider is required"))
       ELSE IF blank(req.model)
       THEN Raise(Exc("ValueError", "model is required"))
       ELSE IF provider_lower \in {"openai", "gemini"}
       THEN Goto("call")
       ELSE IF provider_lower = "ollama"
       THEN Goto("probe")
       ELSE Raise(Exc("ValueError", unknown_provider(req.provider)))

\* has_content testing only for None
has_content_none_only(c) == c # None

\* `if content:` on the adapter's return value, lines 649, 666, 688 (and 324)
has_content(c) == Truthy(c)

\* the adapter has returned c to its caller: generate_reply (lines 648-657,
\* 665-673, 687-690) or, for a reasoning model, _openai_call_stream (lines 323-329)
Returned(p, c) ==
    IF req.fn = "generate_reply"
    THEN IF has_content(c)
         THEN Return(ChatReply(c, None, None))
         ELSE IF p = "ollama"
         THEN Return(ChatReply("", "Ollama returned no content", None))
         ELSE Goto("recheck")
    ELSE YieldToken(IF has_content(c) THEN c ELSE "", "finish")

\* an exception leaves the adapter and reaches the orchestrator's try block
Propagate(p, e) ==
    /\ log' = log \o << Touch("backend", p, repr(e)), Touch("raise", p, repr(e)) >>
    /\ Except(p, e)

\* _openai_call lines 227-229, _gemini_call lines 391-393: the adapter reads its key
AdapterKey ==
    /\ pc = "call"
    /\ provider_lower \in {"openai", "gemini"}
    /\ LET p == provider_lower
           key == get_api_key(p)
       IN  /\ log' = log \o << Touch("adapter", p, ""),
                               Touch("getenv", p, str(key)) >>
           /\ content' = None
           /\ IF key_missing(key, client_of(p))
              THEN Returned(p, None)
              ELSE Goto("backend")
    /\ UNCHANGED <<web, start, wire, environ, dotenv, key_ops, sdk, daemon, req, left>>

\* the responses the backend of p may give for the model
Responses(p, model) ==
    CASE p = "openai" /\ is_reasoning_model(model) -> OpenAIReasoningResponses
      [] p = "openai" /\ ~is_reasoning_model(model) -> OpenAIChatResponses
      [] p = "gemini" -> GeminiResponses

\* the adapter's return value for a response
adapter_result(p, model, resp) ==
    CASE p = "openai" /\ is_reasoning_model(model) -> openai_reasoning_result(resp)
      [] p = "openai" /\ ~is_reasoning_model(model) -> openai_chat_result(resp)
      [] p = "gemini" -> gemini_result(resp)

\* what the answer said about why generation stopped (Gemini only)
finish_reason(p, resp) ==
    IF p = "gemini" THEN << Touch("finish_reason", p, resp.finish_reason) >> ELSE <<>>

\* _openai_call lines 231-274, _gemini_call lines 395-418: the request to the
\* backend, which answers or fails
AdapterBackend ==
    /\ pc = "backend"
    /\ provider_lower \in {"openai", "gemini"}
    /\ LET p == provider_lower IN
       \/ \E e \in BackendErrors(p) :
             /\ Propagate(p, e)
             /\ UNCHANGED content
       \/ \E resp \in Responses(p, req.model) :
             LET c == adapter_result(p, req.model, resp) IN
             /\ log' = Append(log, Touch("backend", p, "ok")) \o finish_reason(p, resp)
             /\ content' = c
             /\ Returned(p, c)
    /\ UNCHANGED <<web, start, wire, environ, dotenv, key_ops, sdk, daemon, req, left>>

\* lines 652-657, 668-673: no content, so the orchestrator reads the key itself
ReplyRecheck ==
    /\ pc = "recheck"
    /\ LET p == provider_lower
           key == get_api_key(p)
       IN  /\ log' = Append(log, Touch("getenv", p, str(key)))
           /\ IF key_missing(key, client_of(p))
              THEN Return(ChatReply("", Name(p) \o " API key not set", p))
              ELSE Return(ChatReply("", Name(p) \o " returned no content", None))
    /\ UNCHANGED <<web, start, wire, environ, dotenv, key_ops, sdk, daemon, req, content, left>>

\* lines 681-686: the orchestrator probes the daemon
ReplyProbe ==
    /\ pc = "probe"
    /\ req.fn = "generate_reply"
    /\ log' = Append(log, Touch("probe", "ollama", bool(is_ollama_server_running)))
    /\ IF ~is_ollama_server_running
       THEN Return(ChatReply("", "Ollama server not running", "ollama"))
       ELSE Goto("call")
    /\ UNCHANGED <<web, start, wire, environ, dotenv, key_ops, sdk, daemon, req, content, left>>

\* `except requests.RequestException: pass`, lines 494-495 and 561-562
swallowed(e) == e.cls \in RequestException

\* _ollama_call lines 462-463: the adapter probes the daemon again
OllamaCallProbe ==
    /\ pc = "call"
    /\ provider_lower = "ollama"
    /\ log' = log \o << Touch("adapter", "ollama", ""),
                        Touch("probe", "ollama", bool(is_ollama_server_running)) >>
    /\ content' = None
    /\ IF ~is_ollama_server_running
       THEN Returned("ollama", None)
       ELSE Goto("backend")
    /\ UNCHANGED <<web, start, wire, environ, dotenv, key_ops, sdk, daemon, req, left>>

\* what requests.post meets: a stopped daemon refuses the connection
OllamaFailures == IF daemon THEN BackendErrors("ollama") ELSE {ConnectionRefused}

\* _ollama_call lines 465-496: the request to the daemon
OllamaCallPost ==
    /\ pc = "backend"
    /\ provider_lower = "ollama"
    /\ \/ \E e \in OllamaFailures :
             IF swallowed(e)
             THEN /\ log' = Append(log, Touch("backend", "ollama", repr(e)))
                  /\ content' = None
                  /\ Returned("ollama", None)
             ELSE /\ Propagate("ollama", e)
                  /\ UNCHANGED content
       \/ /\ daemon
          /\ \E resp \in OllamaResponses :
                LET c == ollama_result(resp) IN
                /\ log' = Append(log, Touch("backend", "ollama", "ok"))
                /\ content' = c
                /\ Returned("ollama", c)
    /\ UNCHANGED <<web, start, wire, environ, dotenv, key_ops, sdk, daemon, req, left>>

-----------------------------------------------------------------------------
(* generate_reply_stream *)

\* generate_reply's prologue copied into the generator: the mistake is raised
stream_invalid_raised(error) == Raise(Exc("ValueError", error))

\* a caller-input mistake in generate_reply_stream: `yield StreamChunk(error=...)`
\* and the generator ends, lines 722-723, 726-727, 816
stream_invalid(error) == YieldError(error, None)

\* lines 721-734, 761, 788, 815-816: validation and dispatch
generate_reply_stream ==
    /\ pc = "validate"
    /\ req.fn = "generate_reply_stream"
    /\ UNCHANGED <<web, start, wire, environ, dotenv, key_ops, sdk, daemon, req, content, left, log>>
    /\ IF blank(req.provider)
       THEN stream_invalid("provider is required")
       ELSE IF blank(req.model)
       THEN stream_invalid("model is required")
       ELSE IF provider_lower \in {"openai", "gemini"}
       THEN Goto("check")
       ELSE IF provider_lower = "ollama"
       THEN Goto("probe")
       ELSE stream_invalid(unknown_provider(req.provider))

\* the orchestrator leaving the key check to the adapter
StreamCheck_left_to_adapter ==
    /\ pc = "check"
    /\ Goto("stream")
    /\ UNCHANGED <<web, start, wire, environ, dotenv, key_ops, sdk, daemon, req, content, left, log>>

\* lines 736-742, 763-768: the key is read before the adapter is started
StreamCheck ==
    /\ pc = "check"
    /\ LET p == provider_lower
           key == get_api_key(p)
       IN  /\ log' = Append(log, Touch("getenv", p, str(key)))
           /\ IF key_missing(key, client_of(p))
              THEN YieldError(Name(p) \o " API key not set", p)
              ELSE Goto("stream")
    /\ UNCHANGED <<web, start, wire, environ, dotenv, key_ops, sdk, daemon, req, content, left>>

\* lines 790-795: the daemon is probed before the adapter is started
StreamProbe ==
    /\ pc = "probe"
    /\ req.fn = "generate_reply_stream"
    /\ log' = Append(log, Touch("probe", "ollama", bool(is_ollama_server_running)))
    /\ IF ~is_ollama_server_running
       THEN YieldError("Ollama server not running", "ollama")
       ELSE Goto("stream")
    /\ UNCHANGED <<web, start, wire, environ, dotenv, key_ops, sdk, daemon, req, content, left>>

\* an adapter that streams whatever the model family
stream_route_always_open(p, model) == "open"

\* _openai_call_stream lines 318-329: a reasoning model is served by
\* _openai_call, every other model by a streaming request
stream_route(p, model) ==
    IF p = "openai" /\ is_reasoning_model(model) THEN "call" ELSE "open"

\* _openai_call_stream lines 297-329, _gemini_call_stream lines 581-583: the
\* streaming adapter starts, reads its key and, for a reasoning model, falls
\* back to _openai_call
StreamAdapterKey ==
    /\ pc = "stream"
    /\ provider_lower \in {"openai", "gemini"}
    /\ LET p == provider_lower
           key == get_api_key(p)
       IN  /\ log' = log \o << Touch("stream_adapter", p, ""),
                               Touch("getenv", p, str(key)) >>
           /\ IF key_missing(key, client_of(p))
              THEN Goto("finish")
              ELSE Goto(stream_route(p, req.model))
    /\ UNCHANGED <<web, start, wire, environ, dotenv, key_ops, sdk, daemon, req, content, left>>

\* _ollama_call_stream lines 516-517: the streaming adapter probes the daemon again
OllamaStreamProbe ==
    /\ pc = "stream"
    /\ provider_lower = "ollama"
    /\ log' = log \o << Touch("stream_adapter", "ollama", ""),
                        Touch("probe", "ollama", bool(is_ollama_server_running)) >>
    /\ IF ~is_ollama_server_running
       THEN Goto("finish")
       ELSE Goto("open")
    /\ UNCHANGED <<web, start, wire, environ, dotenv, key_ops, sdk, daemon, req, content, left>>

\* what goes wrong on the stream of provider p
StreamFailures(p) == IF p = "ollama" THEN OllamaFailures ELSE BackendErrors(p)

\* an exception is raised inside the streaming adapter: _ollama_call_stream
\* swallows a RequestException and ends, everything else reaches the orchestrator
StreamRaise(p, e) ==
    IF p = "ollama" /\ swallowed(e)
    THEN /\ log' = Append(log, Touch("backend", p, repr(e)))
         /\ Goto("finish")
    ELSE Propagate(p, e)

\* lines 332-337, 597, 542-545: the streaming request is sent
StreamOpen ==
    /\ pc = "open"
    /\ LET p == provider_lower IN
       \/ \E e \in StreamFailures(p) :
             /\ StreamRaise(p, e)
             /\ left' = left
       \/ /\ p = "ollama" => daemon
          /\ \E status_code \in IF p = "ollama" THEN {200, 500} ELSE {200} :
                /\ log' = Append(log, Touch("backend", p, "ok"))
                /\ IF status_code = 200
                   THEN Goto("streaming") /\ left' = MaxChunks
                   ELSE Goto("finish") /\ left' = left
    /\ UNCHANGED <<web, start, wire, environ, dotenv, key_ops, sdk, daemon, req, content>>

\* one chunk of the stream: the texts it carries, and whether it is the last
StreamChunks(p) ==
    CASE p = "openai" ->
           \* choices[0].delta.content
           { [content |-> c, done |-> FALSE] : c \in {None, "", "Tok1", "Tok2"} }
      [] p = "gemini" ->
           \* chunk.text, else the parts of its candidates
           { [text |-> t, parts |-> ps, done |-> FALSE] :
               t \in {"", "Tok1"}, ps \in {<<>>, <<"", "Tok1", "Tok2">>} }
      [] p = "ollama" ->
           \* a line of newline-delimited JSON: empty, not JSON, or an object
           { [line |-> l, content |-> "", done |-> FALSE] : l \in {"", "not json"} } \cup
           { [line |-> "json", content |-> c, done |-> d] :
               c \in {"", "Tok1", "Tok2"}, d \in BOOLEAN }

RECURSIVE truthy_parts(_)
truthy_parts(ps) ==
    IF ps = <<>> THEN <<>>
    ELSE (IF Truthy(Head(ps)) THEN <<Head(ps)>> ELSE <<>>) \o truthy_parts(Tail(ps))

\* the tokens the streaming adapter yields for a chunk: lines 339-348, 598-607, 546-560
chunk_tokens(p, chunk) ==
    CASE p = "openai" -> IF Truthy(chunk.content) THEN <<chunk.content>> ELSE <<>>
      [] p = "gemini" -> IF Truthy(chunk.text) THEN <<chunk.text>>
                         ELSE truthy_parts(chunk.parts)
      [] p = "ollama" -> IF chunk.line = "json" /\ Truthy(chunk.content)
                         THEN <<chunk.content>> ELSE <<>>

\* the orchestrator's loop forwards the adapter's tokens: lines 746-751, 772-779, 799-806
forward(tokens) ==
    LET ts == truthy_parts(tokens)
    IN  [i \in 1..Len(ts) |-> StreamChunk(ts[i], None, None)]

\* the stream delivers a chunk, ends, or fails
StreamNext ==
    /\ pc = "streaming"
    /\ LET p == provider_lower IN
       \/ /\ left > 0
          /\ p = "ollama" => daemon
          /\ \E chunk \in StreamChunks(p) :
                LET tokens == chunk_tokens(p, chunk) IN
                /\ events' = events \o forward(tokens)
                /\ had_content' = (had_content \/ forward(tokens) # <<>>)
                /\ pc' = IF chunk.done THEN "finish" ELSE "streaming"
                /\ left' = left - 1
                /\ UNCHANGED <<result, raised, log>>
       \/ /\ p = "ollama" => daemon
          /\ Goto("finish")
          /\ UNCHANGED <<left, log>>
       \/ \E e \in StreamFailures(p) :
             /\ StreamRaise(p, e)
             /\ left' = left
    /\ UNCHANGED <<web, start, wire, environ, dotenv, key_ops, sdk, daemon, req, content>>

\* the trailing error yielded whatever was streamed
no_content_always(had) == TRUE

\* `if not had_content:` at the end of the provider branch, lines 753, 781, 808
no_content(had) == ~had

\* lines 753-755, 781-782, 808-809: the adapter's iterator is exhausted
StreamFinish ==
    /\ pc = "finish"
    /\ IF no_content(had_content)
       THEN YieldError(Name(provider_lower) \o " returned no content", None)
       ELSE Goto("done")
    /\ UNCHANGED <<web, start, wire, environ, dotenv, key_ops, sdk, daemon, req, content, left, log>>

-----------------------------------------------------------------------------
(* The administrative path: EnvironmentManager (src/utils.py).  Credential   *)
(* updates are requests of the same single user and are served between      *)
(* generation calls, not during one.                                        *)

\* the caller has consumed the outcome; the call's record is dropped
Respond ==
    /\ pc = "done"
    /\ req' = NoRequest
    /\ pc' = "idle"
    /\ content' = None
    /\ had_content' = FALSE
    /\ left' = 0
    /\ result' = <<>>
    /\ raised' = <<>>
    /\ events' = <<>>
    /\ log' = <<>>
    /\ UNCHANGED <<web, start, wire, environ, dotenv, key_ops, sdk, daemon>>

BodyKeys == {"openai", "gemini"}

\* the request bodies of PUT /api/keys: per provider a value, or Unset when the
\* body does not name the provider
KeysData == [BodyKeys -> KeyValues \cup {Unset}] \ {[b \in BodyKeys |-> Unset]}

\* one round of the loop of update_api_keys, lines 144-158; io_ok says whether
\* writing the .env file succeeds
update_one(st, env_key, body_key, value, io_ok) ==
    IF st.aborted \/ value = Unset THEN st
    ELSE IF strip(value) = <<>>
    THEN [st EXCEPT !.file = IF io_ok THEN [st.file EXCEPT ![env_key] = Unset] ELSE st.file,
                    !.env = [st.env EXCEPT ![env_key] = Unset],
                    !.updated = [st.updated EXCEPT ![body_key] =
                                    [op |-> "removed", value |-> <<>>]]]
    ELSE IF io_ok
    THEN [st EXCEPT !.file = [st.file EXCEPT ![env_key] = value],
                    !.env = [st.env EXCEPT ![env_key] = value],
                    !.updated = [st.updated EXCEPT ![body_key] =
                                    [op |-> "set", value |-> value]]]
    ELSE [st EXCEPT !.aborted = TRUE]

\* update_api_keys, lines 130-162
update_api_keys(keys_data, io_ok) ==
    LET st0 == [file |-> dotenv, env |-> environ, updated |-> key_ops, aborted |-> FALSE]
        st1 == update_one(st0, "OPENAI_API_KEY", "openai", keys_data["openai"], io_ok)
        st2 == update_one(st1, "GEMINI_API_KEY", "gemini", keys_data["gemini"], io_ok)
    IN  /\ pc = "idle"
        /\ dotenv' = st2.file
        /\ key_ops' = st2.updated
        /\ environ' = IF st2.aborted THEN st2.env ELSE load_dotenv(st2.file, st2.env)
        /\ UNCHANGED <<web, start, wire, sdk, daemon, req, pc, content, had_content, left,
                       result, raised, events, log>>

\* delete_api_key, lines 164-186, for a known provider
delete_api_key(provider, io_ok) ==
    LET env_key == key_mapping(provider)
        file == IF io_ok THEN [dotenv EXCEPT ![env_key] = Unset] ELSE dotenv
    IN  /\ pc = "idle"
        /\ env_key # ""
        /\ dotenv' = file
        /\ key_ops' = [key_ops EXCEPT ![provider] = [op |-> "removed", value |-> <<>>]]
        /\ environ' = load_dotenv(file, [environ EXCEPT ![env_key] = Unset])
        /\ UNCHANGED <<web, start, wire, sdk, daemon, req, pc, content, had_content, left,
                       result, raised, events, log>>

-----------------------------------------------------------------------------
(* The Ollama daemon, which comes and goes on its own *)

DaemonStarts ==
    /\ ~daemon
    /\ daemon' = TRUE
    /\ UNCHANGED <<web, start, wire, environ, dotenv, key_ops, sdk, req, pc, content, had_content, left,
                   result, raised, events, log>>

DaemonStops ==
    /\ daemon
    /\ daemon' = FALSE
    /\ UNCHANGED <<web, start, wire, environ, dotenv, key_ops, sdk, req, pc, content, had_content, left,
                   result, raised, events, log>>

-----------------------------------------------------------------------------
(* start_ollama_server (src/chat.py lines 126-148, the same in src/utils.py):  *)
(* called when the provider list is built, between generation calls.          *)

StartStep(next, touch) ==
    start' = [start EXCEPT !.pc = next, !.trace = Append(start.trace, touch)]

StartReturn(value, touch) ==
    start' = [start EXCEPT !.pc = "done", !.trace = Append(start.trace, touch),
                           !.ret = value]

StartUnchanged ==
    UNCHANGED <<web, wire, environ, dotenv, key_ops, sdk, daemon, req, pc, content,
                had_content, left, result, raised, events, log>>

\* the function is entered
start_ollama_server ==
    /\ pc = "idle"
    /\ start.pc = "idle"
    /\ start' = [NoStart EXCEPT !.pc = "probe"]
    /\ StartUnchanged

\* a start that does not look at the first probe
after_probe_spawn_anyway(running) == "installed"

\* lines 132-133: `if is_ollama_server_running(): return True`
after_probe(running) == IF running THEN "return" ELSE "installed"

StartProbe ==
    /\ start.pc = "probe"
    /\ LET running == is_ollama_server_running
           touch == Touch("probe", "ollama", bool(running))
       IN  IF after_probe(running) = "return"
           THEN StartReturn("True", touch)
           ELSE StartStep("installed", touch)
    /\ StartUnchanged

\* lines 135-136: is_ollama_available runs `ollama --version`; a missing or
\* failing binary means not installed
StartInstalled ==
    /\ start.pc = "installed"
    /\ \E available \in BOOLEAN :
          LET touch == Touch("is_ollama_available", "ollama", bool(available))
          IN  IF ~available
              THEN StartReturn("False", touch)
              ELSE StartStep("spawn", touch)
    /\ StartUnchanged

\* what subprocess.Popen raises when the process cannot be started
PopenErrors == {Exc("OSError", "[Errno 8] Exec format error: 'ollama'")}

\* lines 138-142, 147-148: `ollama serve` is spawned; a failure is caught
StartSpawn ==
    /\ start.pc = "spawn"
    /\ \/ StartStep("sleep", Touch("Popen", "ollama", "ok"))
       \/ \E e \in PopenErrors :
             IF except_Exception(e)
             THEN StartReturn("False", Touch("Popen", "ollama", repr(e)))
             ELSE start' = [start EXCEPT !.pc = "done", !.raised = <<e>>,
                               !.trace = Append(start.trace, Touch("Popen", "ollama", repr(e)))]
    /\ StartUnchanged

\* line 144: time.sleep(2)
StartSleep ==
    /\ start.pc = "sleep"
    /\ StartStep("reprobe", Touch("sleep", "ollama", ""))
    /\ StartUnchanged

\* line 146: `return is_ollama_server_running()`
StartReprobe ==
    /\ start.pc = "reprobe"
    /\ LET running == is_ollama_server_running
       IN  StartReturn(bool(running), Touch("probe", "ollama", bool(running)))
    /\ StartUnchanged

\* the caller has the result
StartDone ==
    /\ start.pc = "done"
    /\ start' = NoStart
    /\ StartUnchanged

-----------------------------------------------------------------------------
(* History formatters (src/chat.py lines 175-196, 351-372, 421-442).  A turn  *)
(* is a dict; a key that is missing or holds None reads as None.              *)

\* turns a history may hold before it is formatted
MaxTurns == 2

Turns == [role : {None, "", "user", "assistant", "system", "tool"},
          content : {None, "a", "b"}]

Histories == UNION { [1..n -> Turns] : n \in 0..MaxTurns }

\* `x or default`
or_default(x, default) == IF Truthy(x) THEN x ELSE default

\* a formatter that trusts the role it is given
coerce_role_unchecked(m) == or_default(m.role, "user")

\* `role = m.get("role") or "user"` and
\* `if role not in ("user", "assistant", "system"): role = "user"`
coerce_role(m) ==
    LET role == or_default(m.role, "user")
    IN  IF role \notin {"user", "assistant", "system"} THEN "user" ELSE role

\* _format_history_for_openai, lines 175-196
format_history_for_openai(h, latest_message) ==
    [i \in 1..Len(h) |-> [role |-> coerce_role(h[i]),
                          content |-> or_default(h[i].content, "")]]
    \o << [role |-> "user", content |-> latest_message] >>

\* _format_history_for_gemini, lines 351-372
format_history_for_gemini(h, latest_message) ==
    [mapped |-> [i \in 1..Len(h) |->
                    [role |-> IF coerce_role(h[i]) = "assistant" THEN "model" ELSE "user",
                     parts |-> << or_default(h[i].content, "") >>]],
     user_text |-> latest_message]

\* _format_history_for_ollama, lines 421-442
format_history_for_ollama(h, latest_message) ==
    [i \in 1..Len(h) |-> [role |-> coerce_role(h[i]),
                          content |-> or_default(h[i].content, "")]]
    \o << [role |-> "user", content |-> latest_message] >>

Formatters == {"_format_history_for_openai", "_format_history_for_gemini",
               "_format_history_for_ollama"}

\* a formatter is applied to a history and a latest message
FormatHistory(formatter, h, message) ==
    /\ pc = "idle"
    /\ pc' = formatter
    /\ history' = h
    /\ req' = [NoRequest EXCEPT !.message = message]
    /\ payload' =
         CASE formatter = "_format_history_for_openai" ->
                format_history_for_openai(h, str(message))
           [] formatter = "_format_history_for_gemini" ->
                format_history_for_gemini(h, str(message))
           [] formatter = "_format_history_for_ollama" ->
                format_history_for_ollama(h, str(message))
    /\ UNCHANGED <<web, start, params, family, environ, dotenv, key_ops, sdk, daemon,
                   content, had_content, left, result, raised, events, log>>

-----------------------------------------------------------------------------
(* The request an adapter builds from model and params (src/chat.py lines     *)
(* 231-270, 300-337, 395-407, 465-490)                                        *)

\* keys one params mapping holds
MaxParams == 2

ParamNames ==
    {"temperature", "top_p", "top_k", "max_tokens", "max_output_tokens",
     "presence_penalty", "frequency_penalty", "seed", "stop", "response_format",
     "thinking", "thinking_budget_tokens", "reasoning_effort",
     "web_search", "stream", "model"}

ParamsDicts ==
    { [n \in names |-> "v:" \o n] :
        names \in {ns \in SUBSET ParamNames : Cardinality(ns) <= MaxParams} }

ModelNames ==
    Models \cup
    { <<"o", "3">>,
      <<"o">>,
      <<" ", "o", "3">>,
      <<"g", "p", "t", "-", "4", ".", "1", "-", "l", "i", "v", "e">>,
      <<"g", "p", "t", "-", "4", ".", "1", "-", "l", "i", "v", "e", "-", "2">>,
      <<"g", "e", "m", "i", "n", "i", "-", "2", ".", "5", "-", "p", "r", "o", "-",
        "l", "i", "v", "e">> }

\* an adapter that forwards params as they come
whitelist_everything(ps, allowed) == ps

\* `{k: params[k] for k in allowed if k in params}`
whitelist(ps, allowed) == [k \in (DOMAIN ps) \cap allowed |-> ps[k]]

\* _openai_call, lines 235-246
allowed_openai ==
    {"temperature", "top_p", "max_tokens", "presence_penalty", "frequency_penalty",
     "seed", "stop", "response_format", "thinking", "thinking_budget_tokens"}

\* _gemini_call, line 398
allowed_gemini == {"temperature", "top_p", "top_k", "max_output_tokens"}

\* _ollama_call, lines 470-477: the options Ollama knows, by the params key
\* each is taken from
ollama_option(k) == IF k = "max_tokens" THEN "num_predict" ELSE k

allowed_ollama == {"temperature", "top_p", "top_k", "max_tokens"}

\* None where a dict may stand
NoneDict == [k \in {None} |-> None]

\* `x or None` for a dict
or_None(d) == IF DOMAIN d = {} THEN NoneDict ELSE d

\* _openai_call lines 231-270; _openai_call_stream builds the same request
\* with stream=True and hands a reasoning model to _openai_call
openai_request(model, h, message, ps, stream) ==
    LET messages == format_history_for_openai(h, message)
        call_args == whitelist(ps, allowed_openai)
    IN  IF is_reasoning_model(model)
        THEN [api |-> "responses.create", model |-> str(model), messages |-> messages,
              user_text |-> None, stream |-> FALSE,
              options |-> [k \in (DOMAIN call_args) \ {"max_tokens"} |-> call_args[k]],
              reasoning |-> [effort |-> dict_get(ps, "reasoning_effort", "low")]]
        ELSE [api |-> "chat.completions.create", model |-> str(model),
              messages |-> messages, user_text |-> None, stream |-> stream,
              options |-> call_args, reasoning |-> NoneDict]

\* _gemini_call lines 395-407, _gemini_call_stream lines 585-597
gemini_request(model, h, message, ps, stream) ==
    LET formatted == format_history_for_gemini(h, message)
        generation_config == whitelist(ps, allowed_gemini)
    IN  [api |-> "send_message", model |-> str(model), messages |-> formatted.mapped,
         user_text |-> formatted.user_text, stream |-> stream,
         options |-> or_None(generation_config), reasoning |-> NoneDict]

\* _ollama_call lines 465-490, _ollama_call_stream lines 519-544
ollama_request(model, h, message, ps, stream) ==
    LET messages == format_history_for_ollama(h, message)
        taken == whitelist(ps, allowed_ollama)
        options == [o \in {ollama_option(k) : k \in DOMAIN taken} |->
                       IF o = "num_predict" THEN taken["max_tokens"] ELSE taken[o]]
    IN  [api |-> "POST /api/chat", model |-> str(model), messages |-> messages,
         user_text |-> None, stream |-> stream,
         options |-> or_None(options), reasoning |-> NoneDict]

Adapters == {"openai", "gemini", "ollama"}

\* an adapter builds its request
BuildRequest(adapter, model, ps, stream) ==
    /\ pc = "idle"
    /\ pc' = adapter
    /\ req' = [fn |-> IF stream THEN "generate_reply_stream" ELSE "generate_reply",
               provider |-> <<>>, model |-> model, message |-> <<"h", "i">>]
    /\ params' = ps
    /\ payload' =
         CASE adapter = "openai" -> openai_request(model, <<>>, "hi", ps, stream)
           [] adapter = "gemini" -> gemini_request(model, <<>>, "hi", ps, stream)
           [] adapter = "ollama" -> ollama_request(model, <<>>, "hi", ps, stream)
    /\ UNCHANGED <<web, start, history, family, environ, dotenv, key_ops, sdk, daemon,
                   content, had_content, left, result, raised, events, log>>

-----------------------------------------------------------------------------

Next ==
    \/ \E fn \in Functions, provider \in Providers, model \in Models,
          message \in Messages : Call(fn, provider, model, message)
    \/ generate_reply
    \/ AdapterKey
    \/ AdapterBackend
    \/ ReplyRecheck
    \/ ReplyProbe
    \/ OllamaCallProbe
    \/ OllamaCallPost
    \/ generate_reply_stream
    \/ StreamCheck
    \/ StreamProbe
    \/ StreamAdapterKey
    \/ OllamaStreamProbe
    \/ StreamOpen
    \/ StreamNext
    \/ StreamFinish
    \/ Respond
    \/ \E keys_data \in KeysData, io_ok \in BOOLEAN : update_api_keys(keys_data, io_ok)
    \/ \E provider \in BodyKeys, io_ok \in BOOLEAN : delete_api_key(provider, io_ok)
    \/ DaemonStarts
    \/ DaemonStops
    \/ start_ollama_server
    \/ StartProbe
    \/ StartInstalled
    \/ StartSpawn
    \/ StartSleep
    \/ StartReprobe
    \/ StartDone

Spec == Init /\ [][Next]_vars

-----------------------------------------------------------------------------
(* The adapters' pure stages on their own: a history is formatted, a model    *)
(* name classified, a request built, each from inputs of its own.             *)

\* a model name is classified
Classify(model) ==
    /\ pc = "idle"
    /\ pc' = "classify"
    /\ req' = [NoRequest EXCEPT !.model = model]
    /\ family' = classify(model)
    /\ UNCHANGED <<web, start, history, params, payload, environ, dotenv, key_ops, sdk,
                   daemon, content, had_content, left, result, raised, events, log>>

InitAdapters ==
    /\ Init
    /\ dotenv = [k \in KeyVars |-> Unset]
    /\ sdk = Libraries
    /\ ~daemon

NextAdapters ==
    \/ \E formatter \in Formatters, h \in Histories, message \in Messages :
          FormatHistory(formatter, h, message)
    \/ \E adapter \in Adapters, model \in ModelNames, ps \in ParamsDicts,
          stream \in BOOLEAN : BuildRequest(adapter, model, ps, stream)
    \/ \E model \in ModelNames : Classify(model)

SpecAdapters == InitAdapters /\ [][NextAdapters]_vars

-----------------------------------------------------------------------------
(* Vocabulary of the properties *)

Done == pc = "done"

IsReply == req.fn = "generate_reply"

IsStream == req.fn = "generate_reply_stream"

\* the provider name lower-cased and trimmed
Normalised == str(strip(lower(req.provider)))

NonBlank(s) == \E i \in 1..Len(s) : s[i] \notin {" ", "\t", "\n"}

\* provider and model pass validation and the provider is one of the three
Recognised ==
    /\ NonBlank(req.provider)
    /\ NonBlank(req.model)
    /\ Normalised \in {"openai", "gemini", "ollama"}

Touched(op) == \E i \in 1..Len(log) : log[i].op = op

\* the configured key of the requested provider is unset, empty or a placeholder
KeyUnusable ==
    LET var == IF Normalised = "openai" THEN "OPENAI_API_KEY" ELSE "GEMINI_API_KEY"
        key == environ[var]
    IN  \/ key = Unset
        \/ key = <<>>
        \/ (Len(key) >= 4 /\ SubSeq(key, 1, 4) = <<"P", "U", "T", "_">>)

TokenEvents == {i \in 1..Len(events) : events[i].token # None}

ErrorEvents == {i \in 1..Len(events) : events[i].error # None}

-----------------------------------------------------------------------------
(* Properties *)

\* C1: every ChatReply that generate_reply returns either carries an error and
\* an empty reply, or carries no error and a non-empty reply; never both, never
\* neither.
C1_ReplyXorError ==
    result # <<>> =>
        \/ result[1].error \notin {None, ""} /\ result[1].reply = ""
        \/ result[1].error = None /\ result[1].reply \notin {None, ""}

\* a backend answered with text and generate_reply returned it
C1_Witness ==
    /\ Done /\ IsReply /\ Touched("backend")
    /\ result # <<>> /\ result[1].error = None /\ result[1].reply = "Part"

\* C2: once provider and model are valid and the provider is recognised, no
\* exception leaves generate_reply or generate_reply_stream: the call ends with
\* a ChatReply, or with a non-empty finite sequence of StreamChunks.
C2_NoAdapterExceptionEscapes ==
    Recognised =>
        /\ raised = <<>>
        /\ Done /\ IsReply => Len(result) = 1
        /\ Done /\ IsStream => Len(events) >= 1 /\ result = <<>>

\* an adapter raised, and the call still ended with data
C2_Witness ==
    /\ Done /\ Touched("raise") /\ raised = <<>>
    /\ IsStream /\ Len(events) = 2

\* the failure of the last request the call sent to a backend, "" if it sent
\* none or the last one was answered
RECURSIVE LastBackendFailure(_)
LastBackendFailure(l) ==
    IF l = <<>> THEN ""
    ELSE IF l[Len(l)].op = "backend"
    THEN (IF l[Len(l)].got = "ok" THEN "" ELSE l[Len(l)].got)
    ELSE LastBackendFailure(SubSeq(l, 1, Len(l) - 1))

\* C3: for openai, gemini and ollama alike, when the backend call made for
\* generate_reply fails in transport or protocol, the returned ChatReply has
\* reply "" and error "<Provider> error: <exception-class>: <message>".
C3_TransportFailureTranslated ==
    Done /\ IsReply /\ LastBackendFailure(log) # "" =>
        result = << [reply |-> "", warning |-> None, missing_key_for |-> None,
                     error |-> (CASE Normalised = "openai" -> "OpenAI error: "
                                  [] Normalised = "gemini" -> "Gemini error: "
                                  [] Normalised = "ollama" -> "Ollama error: ")
                               \o LastBackendFailure(log)] >>

\* C4: for a non-blank model and a provider name that, lower-cased and trimmed,
\* is none of openai, gemini, ollama, generate_reply raises a ValueError whose
\* message names the provider as given, and touches no adapter, credential,
\* daemon or backend.
C4_UnknownProviderRejected ==
    /\ IsReply
    /\ NonBlank(req.provider)
    /\ NonBlank(req.model)
    /\ Normalised \notin {"openai", "gemini", "ollama"}
    => /\ log = <<>>
       /\ result = <<>>
       /\ Done => raised = << [cls |-> "ValueError",
                               msg |-> "unknown provider: " \o str(req.provider)] >>

\* generate_reply("grok", <a model>, ...) has raised
C4_Witness ==
    /\ Done /\ IsReply
    /\ str(req.provider) = "grok" /\ NonBlank(req.model)
    /\ raised # <<>>

\* C5: a request whose message is empty after trimming fails validation in
\* generate_reply and in generate_reply_stream before any adapter is touched:
\* no credential is read, no daemon probed, no backend called for it.
C5_EmptyMessageTouchesNothing ==
    req.fn # "none" /\ ~NonBlank(req.message) => log = <<>>

\* a caller-input mistake of a streaming call
StreamMistake ==
    /\ IsStream
    /\ \/ ~NonBlank(req.provider)
       \/ ~NonBlank(req.model)
       \/ Normalised \notin {"openai", "gemini", "ollama"}

C7_MissingKeyReply ==
    /\ IsReply
    /\ Recognised
    /\ Normalised \in {"openai", "gemini"}
    /\ KeyUnusable
    => /\ ~Touched("backend")
       /\ Done => result = << [reply |-> "", warning |-> None,
                               error |-> IF Normalised = "openai"
                                         THEN "OpenAI API key not set"
                                         ELSE "Gemini API key not set",
                               missing_key_for |-> Normalised] >>

\* generate_reply for gemini has returned while GEMINI_API_KEY held a placeholder
C7_Witness ==
    /\ Done /\ IsReply /\ Recognised /\ Normalised = "gemini"
    /\ environ["GEMINI_API_KEY"] = <<"P", "U", "T", "_", "K", "E", "Y">>
    /\ result # <<>>

\* the availability check of a streaming call has failed: the key is unusable
\* or the client library missing (openai, gemini), the probe said no (ollama)
StreamCheckFailed ==
    /\ IsStream /\ Recognised /\ log # <<>>
    /\ IF Normalised = "ollama"
       THEN log[1].op = "probe" /\ log[1].got = "False"
       ELSE KeyUnusable \/ (IF Normalised = "openai" THEN "OpenAI" ELSE "genai") \notin sdk

\* C8: in generate_reply_stream the credential check or daemon probe comes
\* before the adapter's streaming call is started; when it fails the stream is
\* exactly one event, an error with missing_key_for the provider, with no token
\* event, and the adapter's streaming call is never started.
C8_CheckBeforeStream ==
    /\ IsStream /\ log # <<>> => log[1].op \in {"getenv", "probe"}
    /\ StreamCheckFailed =>
         /\ Len(log) = 1
         /\ Done
         /\ Len(events) = 1
         /\ events[1].token = None
         /\ events[1].error \notin {None, ""}
         /\ events[1].missing_key_for = Normalised

\* the probe of a streaming Ollama call found the daemon down
C8_Witness ==
    /\ StreamCheckFailed /\ Normalised = "ollama"
    /\ Len(events) = 1

\* C9: when the adapter's streaming call was started, raised nothing and
\* yielded no token, generate_reply_stream emits exactly one event, the error
\* "<Provider> returned no content"; when it yielded a token and raised
\* nothing, no error event is emitted.
C9_NoContentBoundary ==
    Done /\ IsStream /\ Touched("stream_adapter") /\ ~Touched("raise") =>
        IF TokenEvents = {}
        THEN events = << [token |-> None, warning |-> None, missing_key_for |-> None,
                          error |-> (CASE Normalised = "openai" -> "OpenAI"
                                       [] Normalised = "gemini" -> "Gemini"
                                       [] Normalised = "ollama" -> "Ollama")
                                    \o " returned no content"] >>
        ELSE ErrorEvents = {}

\* a stream was opened, delivered only empty chunks and ended
C9_Witness ==
    /\ Done /\ IsStream /\ Touched("stream_adapter") /\ ~Touched("raise")
    /\ left < MaxChunks /\ LastBackendFailure(log) = ""
    /\ TokenEvents = {} /\ Len(events) = 1

\* C10: a stream of generate_reply_stream holds at most one error event, the
\* error event is its last event and ends it, and the stream is finite (the
\* backend sends at most MaxChunks chunks of at most two tokens each).
C10_ErrorIsTerminal ==
    IsStream =>
        /\ Cardinality(ErrorEvents) <= 1
        /\ \A i \in ErrorEvents : i = Len(events) /\ Done
        /\ Len(events) <= 2 * MaxChunks + 1

\* tokens were forwarded, then the stream failed
C10_Witness ==
    /\ Done /\ IsStream
    /\ Len(events) >= 3 /\ ErrorEvents = {Len(events)}

\* C11: for openai, gemini and ollama alike, when the backend's transport fails
\* on a streaming call after k >= 0 tokens were delivered, the stream of
\* generate_reply_stream is those k tokens followed by exactly one error event
\* "<Provider> error: <exception-class>: <message>"; it never ends without one.
C11_CutStreamEndsInError ==
    Done /\ IsStream /\ Touched("stream_adapter") /\ LastBackendFailure(log) # "" =>
        /\ Len(events) >= 1
        /\ events[Len(events)] =
             [token |-> None, warning |-> None, missing_key_for |-> None,
              error |-> (CASE Normalised = "openai" -> "OpenAI error: "
                           [] Normalised = "gemini" -> "Gemini error: "
                           [] Normalised = "ollama" -> "Ollama error: ")
                        \o LastBackendFailure(log)]
        /\ \A i \in 1..(Len(events) - 1) :
              events[i].token \notin {None, ""} /\ events[i].error = None

\* how many times the call did op
Count(op) == Cardinality({i \in 1..Len(log) : log[i].op = op})

\* the requested model's name starts, in any case, with "o3"
ReasoningRequested ==
    /\ Len(req.model) >= 2
    /\ req.model[1] \in {"o", "O"}
    /\ req.model[2] = "3"

\* C12: a streaming request to openai for a reasoning model opens no token
\* stream; once the adapter is started the non-streaming path is invoked
\* exactly once, and when it returns a non-empty text T the stream is exactly
\* one token event carrying T.
C12_ReasoningFallsBack ==
    IsStream /\ Recognised /\ Normalised = "openai" /\ ReasoningRequested =>
        /\ pc \notin {"open", "streaming"}
        /\ Count("adapter") <= 1
        /\ Done /\ Touched("stream_adapter") =>
             /\ Count("adapter") = 1
             /\ content \notin {None, ""} =>
                  events = << [token |-> content, warning |-> None,
                               error |-> None, missing_key_for |-> None] >>

\* generate_reply_stream("openai", "O3-mini") has ended with the whole answer
\* as its only event
C12_Witness ==
    /\ Done /\ IsStream /\ Normalised = "openai" /\ ReasoningRequested
    /\ content = "REASONED"
    /\ Len(events) = 1 /\ events[1].token = "REASONED"

\* a key value generate_reply accepts: not empty and no "PUT_" placeholder
Usable(value) ==
    /\ value # <<>>
    /\ ~(Len(value) >= 4 /\ SubSeq(value, 1, 4) = <<"P", "U", "T", "_">>)

\* C13: credentials are read on every call and never cached: the first
\* generate_reply after a usable key was stored for its provider reports no
\* missing key, and the first generate_reply after the key was deleted or
\* updated to an empty value returns "<Provider> API key not set" with
\* missing_key_for the provider, without a restart.
C13_CredentialTakesEffect ==
    Done /\ IsReply /\ Recognised /\ Normalised \in {"openai", "gemini"} =>
        LET last == key_ops[Normalised] IN
        /\ last.op = "set" /\ Usable(last.value) =>
              result[1].missing_key_for = None
        /\ last.op = "removed" =>
              result = << [reply |-> "", warning |-> None,
                           error |-> IF Normalised = "openai"
                                     THEN "OpenAI API key not set"
                                     ELSE "Gemini API key not set",
                           missing_key_for |-> Normalised] >>

\* what the requested provider's own state says: its key is unusable or its
\* client library is missing (openai, gemini)
OwnKeyMissing ==
    LET own == IF Normalised = "openai"
               THEN [var |-> "OPENAI_API_KEY", lib |-> "OpenAI"]
               ELSE [var |-> "GEMINI_API_KEY", lib |-> "genai"]
    IN  \/ environ[own.var] = Unset
        \/ ~Usable(environ[own.var])
        \/ own.lib \notin sdk

\* the answers the daemon gave to the call's probes, in order
Probes == SelectSeq(log, LAMBDA t : t.op = "probe")

IsToken(chunk) == chunk.token # None

\* the texts of the outcome, spelled for the requested provider
Text(kind) ==
    LET name == CASE Normalised = "openai" -> "OpenAI"
                  [] Normalised = "gemini" -> "Gemini"
                  [] Normalised = "ollama" -> "Ollama"
    IN  CASE kind = "key" -> IF Normalised = "ollama" THEN "Ollama server not running"
                             ELSE name \o " API key not set"
          [] kind = "empty" -> name \o " returned no content"
          [] kind = "error" -> name \o " error: " \o LastBackendFailure(log)

\* the outcome as a function of the requested provider's own state and its own
\* backend's behaviour: "key", "error", "empty" or "ok"
OwnOutcome ==
    IF Normalised = "ollama"
    THEN IF Probes[1].got = "False" THEN "key"
         ELSE IF Touched("raise") THEN "error"
         ELSE IF IsReply /\ content \in {None, ""} THEN "empty"
         ELSE IF IsStream /\ SelectSeq(events, IsToken) = <<>> THEN "empty"
         ELSE "ok"
    ELSE IF OwnKeyMissing THEN "key"
         ELSE IF Touched("raise") THEN "error"
         ELSE IF IsReply /\ content \in {None, ""} THEN "empty"
         ELSE IF IsStream /\ SelectSeq(events, IsToken) = <<>> THEN "empty"
         ELSE "ok"

\* the result of a finished call is the one its provider's own state dictates
OwnResult ==
    LET o == OwnOutcome
        missing == IF o = "key" THEN Normalised ELSE None
    IN  /\ IsReply =>
             result = << [reply |-> IF o = "ok" THEN content ELSE "",
                          warning |-> None,
                          error |-> IF o = "ok" THEN None ELSE Text(o),
                          missing_key_for |-> missing] >>
        /\ IsStream =>
             events = SelectSeq(events, IsToken) \o
                      (IF o = "ok" THEN <<>>
                       ELSE << [token |-> None, warning |-> None,
                                error |-> Text(o), missing_key_for |-> missing] >>)

\* C14: a call's result depends only on the requested provider's own
\* credential, client library or daemon and on its own backend's answers: the
\* call touches nothing of another provider, its result is the function
\* OwnResult of its own provider's state, and a call, failed or not, changes
\* nothing that a later call reads (environment, key file, libraries) and
\* leaves none of its locals behind.
C14_ProviderIsolation ==
    /\ [](Recognised =>
            /\ \A i \in 1..Len(log) : log[i].on = Normalised
            /\ Done => OwnResult)
    /\ [][ /\ pc # "idle" => UNCHANGED <<environ, dotenv, sdk>>
           /\ pc' = "idle" =>
                /\ req' = NoRequest /\ content' = None /\ had_content' = FALSE
                /\ left' = 0 /\ result' = <<>> /\ raised' = <<>>
                /\ events' = <<>> /\ log' = <<>> ]_vars

\* openai answered while gemini had neither key nor library and the daemon
\* was down
C14_Witness ==
    /\ Done /\ IsReply /\ Normalised = "openai"
    /\ result # <<>> /\ result[1].reply = "Hello"
    /\ environ["GEMINI_API_KEY"] = Unset /\ "genai" \notin sdk /\ ~daemon

\* the call has seen the daemon down: a probe of its own said no, or its
\* request was refused
DaemonSeenDown ==
    \/ \E i \in 1..Len(Probes) : Probes[i].got = "False"
    \/ LastBackendFailure(log) = "ConnectionError: connection refused"

\* C16: the daemon may stop at any moment of a generate_reply call for ollama,
\* also between the orchestrator's probe and the adapter's probe or request;
\* whenever the adapter's result is empty or absent while the daemon is not
\* running, the ChatReply is error "Ollama server not running" with
\* missing_key_for "ollama", never "Ollama returned no content".
C16_StoppedDaemonReported ==
    /\ Done /\ IsReply /\ Recognised /\ Normalised = "ollama"
    /\ content \in {None, ""}
    /\ DaemonSeenDown
    => result = << [reply |-> "", warning |-> None,
                    error |-> "Ollama server not running",
                    missing_key_for |-> "ollama"] >>

\* Gemini's answer was stopped by its safety filter or for recitation
Blocked ==
    \E i \in 1..Len(log) :
        log[i].op = "finish_reason" /\ log[i].got \in {"SAFETY", "RECITATION"}

\* C18: when Gemini's finish reason indicates a safety block or recitation,
\* generate_reply returns a successful result, a non-empty reply (the fixed
\* refusal sentence) with error unset; never "Gemini returned no content",
\* never "Gemini error: ...".
C18_SafetyBlockIsAReply ==
    Done /\ IsReply /\ Normalised = "gemini" /\ Blocked =>
        /\ result[1].error = None
        /\ result[1].reply \notin {None, ""}

\* the runs of start_ollama_server that C20 allows: its steps in order and
\* the value it returns
StartRuns ==
    LET probe(b) == [op |-> "probe", on |-> "ollama", got |-> b]
        installed(b) == [op |-> "is_ollama_available", on |-> "ollama", got |-> b]
        spawned == [op |-> "Popen", on |-> "ollama", got |-> "ok"]
        failed == [op |-> "Popen", on |-> "ollama",
                   got |-> "OSError: [Errno 8] Exec format error: 'ollama'"]
        sleep == [op |-> "sleep", on |-> "ollama", got |-> ""]
    IN  { [trace |-> << probe("True") >>, ret |-> "True"],
          [trace |-> << probe("False"), installed("False") >>, ret |-> "False"],
          [trace |-> << probe("False"), installed("True"), failed >>, ret |-> "False"] }
        \cup
        { [trace |-> << probe("False"), installed("True"), spawned, sleep, probe(b) >>,
           ret |-> b] : b \in {"True", "False"} }

IsPrefix(s, t) == Len(s) <= Len(t) /\ SubSeq(t, 1, Len(s)) = s

Coerced(turn) ==
    IF turn.role \in {"user", "assistant", "system"} THEN turn.role ELSE "user"

\* the content a turn must come out with
Kept(turn) == IF turn.content = None THEN "" ELSE turn.content

\* C15: every formatter emits one output turn per input turn, in the input's
\* order, with a role of the target's allowed set ({user, assistant, system}
\* for OpenAI and Ollama, {user, model} for Gemini); the flat-array formatters
\* then append the latest message as one trailing user turn, and the history
\* keeps the turns it was given.
C15_FormatKeepsEveryTurn ==
    /\ pc \in {"_format_history_for_openai", "_format_history_for_ollama"} =>
          /\ Len(payload) = Len(history) + 1
          /\ \A i \in 1..Len(history) :
                /\ payload[i].role \in {"user", "assistant", "system"}
                /\ payload[i].role = Coerced(history[i])
                /\ payload[i].content = Kept(history[i])
          /\ payload[Len(payload)] = [role |-> "user", content |-> str(req.message)]
    /\ pc = "_format_history_for_gemini" =>
          /\ Len(payload.mapped) = Len(history)
          /\ \A i \in 1..Len(history) :
                /\ payload.mapped[i].role \in {"user", "model"}
                /\ payload.mapped[i].role =
                      (IF Coerced(history[i]) = "assistant" THEN "model" ELSE "user")
                /\ payload.mapped[i].parts = << Kept(history[i]) >>
          /\ payload.user_text = str(req.message)

\* a history of a tool turn and a role-less turn was formatted for OpenAI
C15_Witness ==
    /\ pc = "_format_history_for_openai"
    /\ Len(history) = 2
    /\ history[1].role = "tool" /\ history[2].role = None
    /\ history[1].content = "b" /\ history[2].content = "a"
    /\ Len(payload) = 3

\* the allow-list of the adapter that built the request
AllowList ==
    CASE pc = "openai" /\ payload.api = "chat.completions.create" ->
           {"temperature", "top_p", "max_tokens", "presence_penalty",
            "frequency_penalty", "seed", "stop", "response_format", "thinking",
            "thinking_budget_tokens"}
      [] pc = "openai" /\ payload.api = "responses.create" ->
           {"temperature", "top_p", "presence_penalty", "frequency_penalty", "seed",
            "stop", "response_format", "thinking", "thinking_budget_tokens",
            "reasoning_effort"}
      [] pc = "gemini" -> {"temperature", "top_p", "top_k", "max_output_tokens"}
      [] pc = "ollama" -> {"temperature", "top_p", "top_k", "max_tokens"}

\* a request field that holds None
Absent == [k \in {"<None>"} |-> "<None>"]

\* the params key an option of the request was taken from
ParamOf(option) == IF pc = "ollama" /\ option = "num_predict" THEN "max_tokens" ELSE option

\* the params keys whose values the request carries, each with its value
Forwarded ==
    LET opts == IF payload.options = Absent THEN {} ELSE DOMAIN payload.options
        given == { <<ParamOf(o), payload.options[o]>> : o \in opts }
        effort == IF payload.reasoning # Absent /\ "reasoning_effort" \in DOMAIN params
                  THEN { <<"reasoning_effort", payload.reasoning.effort>> }
                  ELSE {}
    IN  given \cup effort

\* C17: whatever the params mapping, the option names an adapter forwards to
\* its provider are within the adapter's allow-list; the forwarded options are
\* exactly the listed keys present in params, with their values, so an
\* unlisted key is dropped without error and without effect on the listed ones.
C17_OnlyListedParams ==
    pc \in {"openai", "gemini", "ollama"} =>
        /\ \A f \in Forwarded : f[1] \in AllowList
        /\ Forwarded = { <<k, params[k]>> : k \in (DOMAIN params) \cap AllowList }

\* a request was built from params holding a listed and an unlisted key
C17_Witness ==
    /\ pc = "ollama"
    /\ DOMAIN params = {"max_tokens", "web_search"}
    /\ DOMAIN payload.options = {"num_predict"}

\* the family C19 gives the requested model name
FamilyOf(model) ==
    IF Len(model) >= 2 /\ model[1] \in {"o", "O"} /\ model[2] = "3" THEN "reasoning"
    ELSE IF str(model) \in {"gpt-4.1-live", "gemini-2.5-pro-live"} THEN "live-search"
    ELSE "standard"

-----------------------------------------------------------------------------
(* The provider registry: get_ollama_models and initialize_ollama_with_app    *)
(* (src/utils.py lines 544-615; src/chat.py lines 151-172 lists the same way) *)

\* models the daemon's answer to /api/tags may list
MaxListed == 3

\* the model names a daemon serves, in the ascending order sorted() gives
ModelTags == <<"codellama:13b", "llama2:7b", "mistral:7b">>

\* position of a name in the order of Python's string comparison
rank(name) == CHOOSE i \in 1..Len(ModelTags) : ModelTags[i] = name

\* model.get("name", ""): a name, or "" when the entry has none
TagNames == {""} \cup { ModelTags[i] : i \in 1..Len(ModelTags) }

\* GET /api/tags: a status and, in the body, the list under "models"
TagsResponse(status, models) == [status |-> status, models |-> models, error |-> <<>>]

\* requests.get raised
TagsFailure(e) == [status |-> 0, models |-> <<>>, error |-> <<e>>]

TagsOutcomes ==
    { TagsResponse(200, ms) : ms \in UNION { [1..n -> TagNames] : n \in 0..MaxListed } }
    \cup { TagsResponse(500, <<>>), TagsResponse(404, <<"llama2:7b">>) }
    \cup { TagsFailure(ConnectionRefused), TagsFailure(Exc("Timeout", "read timed out")) }

\* `x in list`
contains(list, x) == \E i \in 1..Len(list) : list[i] = x

\* a listing that keeps every name it is given
keep_name_always(name, models) == name # ""

\* `if name and name not in models`
keep_name(name, models) == name # "" /\ ~contains(models, name)

\* lines 562-566: the loop over data.get("models", [])
RECURSIVE collect_names(_, _)
collect_names(entries, models) ==
    IF entries = <<>> THEN models
    ELSE collect_names(Tail(entries),
                       IF keep_name(Head(entries), models)
                       THEN Append(models, Head(entries)) ELSE models)

RECURSIVE insert_sorted(_, _)
insert_sorted(x, s) ==
    IF s = <<>> THEN <<x>>
    ELSE IF rank(x) <= rank(Head(s)) THEN <<x>> \o s
    ELSE <<Head(s)>> \o insert_sorted(x, Tail(s))

\* sorted(models) for lists of names
RECURSIVE sorted(_)
sorted(s) == IF s = <<>> THEN <<>> ELSE insert_sorted(Head(s), sorted(Tail(s)))

\* what a call returns or raises
Gave(value) == [ret |-> value, raised |-> <<>>]

Threw(e) == [ret |-> <<>>, raised |-> <<e>>]

\* get_ollama_models, given whether requests imports, what the probe says and
\* what GET /api/tags then answers
get_ollama_models(have_requests, running, outcome) ==
    IF ~have_requests THEN Gave(<<>>)
    ELSE IF ~running THEN Gave(<<>>)
    ELSE IF outcome.error # <<>>
         THEN IF except_RequestException(outcome.error[1])
              THEN Gave(<<>>)
              ELSE Threw(outcome.error[1])
    ELSE IF outcome.status = 200
         THEN Gave(sorted(collect_names(outcome.models, <<>>)))
    ELSE Gave(<<>>)

\* the provider list is refreshed on demand
ListModels(outcome) ==
    /\ pc = "idle"
    /\ start.pc = "idle"
    /\ boot.pc = "idle"
    /\ LET have == "requests" \in sdk
           out == get_ollama_models(have, is_ollama_server_running, outcome)
       IN  listing' = [met |-> <<[requests |-> have, running |-> daemon, outcome |-> outcome]>>,
                       ret |-> out.ret, raised |-> out.raised]
    /\ fav' = NoFavorite
    /\ UNCHANGED <<providers_json, boot, others, start, wire, environ, dotenv,
                   key_ops, sdk, daemon, req, pc, content, had_content, left, result, raised, events, log>>

\* ProvidersConfigManager.write_providers_json, called by one thread: the file
\* holds the data once os.replace has run; open, dump or replace may fail
write_providers_json(file, data, io_ok) ==
    IF io_ok
    THEN [file |-> data, raised |-> <<>>]
    ELSE [file |-> file, raised |-> <<Exc("OSError", "[Errno 28] No space left on device")>>]

\* ProvidersConfigManager.load_providers_json: the file's content; the template,
\* copied, when the file does not exist; any other failure re-raised as Exception
load_providers_json(file, io_ok) ==
    IF file.file = "json"
    THEN [data |-> file, file |-> file, raised |-> <<>>]
    ELSE IF file.file = "missing"
    THEN LET w == write_providers_json(file, Template, io_ok)
         IN  IF w.raised = <<>>
             THEN [data |-> Template, file |-> w.file, raised |-> <<>>]
             ELSE [data |-> file, file |-> file,
                   raised |-> <<Exc("Exception", "Error loading template file")>>]
    ELSE [data |-> file, file |-> file,
          raised |-> <<Exc("Exception", "Error loading providers.json")>>]

\* an initialisation that keeps the entries it finds
without_ollama_keep_all(providers) == providers

\* `[p for p in providers if p.get("id") != "ollama"]`
without_ollama(providers) == SelectSeq(providers, LAMBDA p : p.id # "ollama")

\* lines 600-605: the entry added for the daemon's models
ollama_provider(models) == Provider("ollama", "Ollama (Local)", models)

BootUnchanged ==
    UNCHANGED <<fav, others, wire, environ, dotenv, key_ops, sdk, daemon, req, pc, content,
                had_content, left, result, raised, events, log>>

BootStep(next) == boot' = [boot EXCEPT !.pc = next]

\* an initialisation without the handler
BootExcept_reraise(e) == boot' = [boot EXCEPT !.pc = "done", !.raised = <<e>>]

\* lines 613-615: `except Exception as e` logs the error; anything else leaves
BootExcept(e) ==
    IF except_Exception(e)
    THEN boot' = [boot EXCEPT !.pc = "done", !.error = <<"Error initializing Ollama: " \o e.msg>>]
    ELSE boot' = [boot EXCEPT !.pc = "done", !.raised = <<e>>]

\* the application module is imported: line 1362 of src/app.py
initialize_ollama_with_app ==
    /\ pc = "idle"
    /\ start.pc = "idle"
    /\ boot.pc = "idle"
    /\ boot' = [NoBoot EXCEPT !.pc = "load"]
    /\ listing' = NoListing
    /\ fav' = NoFavorite
    /\ UNCHANGED <<providers_json, start, others, wire, environ, dotenv, key_ops, sdk,
                   daemon, req, pc, content, had_content, left, result, raised, events, log>>

\* lines 586-591: the configuration is loaded and the daemon's entry dropped
BootLoad ==
    /\ boot.pc = "load"
    /\ \E io_ok \in BOOLEAN :
          LET loaded == load_providers_json(providers_json, io_ok)
          IN  /\ providers_json' = loaded.file
              /\ IF loaded.raised # <<>>
                 THEN BootExcept(loaded.raised[1])
                 ELSE boot' = [boot EXCEPT !.pc = "available", !.data = loaded.data,
                                  !.prior = loaded.data,
                                  !.providers = without_ollama(loaded.data.providers)]
    /\ UNCHANGED <<listing, start>>
    /\ BootUnchanged

\* line 594: is_ollama_available runs `ollama --version`; a binary that may
\* not be executed raises PermissionError, which the function does not catch
BootAvailable ==
    /\ boot.pc = "available"
    /\ \/ \E available \in BOOLEAN :
             boot' = [boot EXCEPT !.available = bool(available),
                                  !.pc = IF available THEN "start" ELSE "write"]
       \/ BootExcept(Exc("PermissionError", "[Errno 13] Permission denied: 'ollama'"))
    /\ UNCHANGED <<providers_json, listing, start>>
    /\ BootUnchanged

\* line 596: start_ollama_server is called
BootStart ==
    /\ boot.pc = "start"
    /\ start.pc = "idle"
    /\ start' = [NoStart EXCEPT !.pc = "probe"]
    /\ BootStep("starting")
    /\ UNCHANGED <<providers_json, listing>>
    /\ BootUnchanged

\* line 596: start_ollama_server has returned
BootStarted ==
    /\ boot.pc = "starting"
    /\ start.pc = "done"
    /\ start' = NoStart
    /\ IF start.raised # <<>>
       THEN BootExcept(start.raised[1])
       ELSE boot' = [boot EXCEPT !.started = start.ret,
                                 !.pc = IF start.ret = "True" THEN "list" ELSE "write"]
    /\ UNCHANGED <<providers_json, listing>>
    /\ BootUnchanged

\* lines 597-606: the models are listed; an entry is added when there are any
BootList ==
    /\ boot.pc = "list"
    /\ \E outcome \in TagsOutcomes :
          LET have == "requests" \in sdk
              out == get_ollama_models(have, is_ollama_server_running, outcome)
          IN  /\ listing' = [met |-> <<[requests |-> have, running |-> daemon,
                                       outcome |-> outcome]>>,
                             ret |-> out.ret, raised |-> out.raised]
              /\ IF out.raised # <<>>
                 THEN BootExcept(out.raised[1])
                 ELSE boot' = [boot EXCEPT
                         !.pc = "write", !.models = out.ret,
                         !.providers = IF out.ret # <<>>
                                       THEN Append(boot.providers, ollama_provider(out.ret))
                                       ELSE boot.providers]
    /\ UNCHANGED <<providers_json, start>>
    /\ BootUnchanged

\* lines 610-611: the providers are put back into the data and the data saved
BootWrite ==
    /\ boot.pc = "write"
    /\ \E io_ok \in BOOLEAN :
          LET data == [boot.data EXCEPT !.providers = boot.providers]
              w == write_providers_json(providers_json, data, io_ok)
          IN  /\ providers_json' = w.file
              /\ IF w.raised # <<>>
                 THEN BootExcept(w.raised[1])
                 ELSE boot' = [boot EXCEPT !.pc = "done", !.data = data, !.wrote = <<data>>]
    /\ UNCHANGED <<listing, start>>
    /\ BootUnchanged

\* the import goes on; the module may be imported again by another process
BootDone ==
    /\ boot.pc = "done"
    /\ boot.raised = <<>>
    /\ boot' = NoBoot
    /\ UNCHANGED <<providers_json, listing, start>>
    /\ BootUnchanged

-----------------------------------------------------------------------------
(* Favourites: POST and DELETE /api/favorites (src/app.py lines 562-591)      *)

\* the provider and model of a request, as the client spells them
FavProviders ==
    { <<>>,
      <<" ", "o", "p", "e", "n", "a", "i">>,
      <<"o", "l", "l", "a", "m", "a">>,
      <<"O", "p", "e", "n", "A", "I">> }

FavModels ==
    { <<" ">>,
      <<"g", "p", "t", "-", "4", "o", " ">>,
      <<"l", "l", "a", "m", "a", "2", ":", "7", "b">> }

\* validate_provider_model: some entry has the id and lists the model; a
\* configuration that cannot be loaded validates nothing
validate_provider_model(file, provider, model, io_ok) ==
    LET loaded == load_providers_json(file, io_ok)
    IN  /\ loaded.raised = <<>>
        /\ \E i \in 1..Len(loaded.data.providers) :
              /\ loaded.data.providers[i].id = provider
              /\ contains(loaded.data.providers[i].models, model)

\* f"{provider}:{model}"
favorite_key(provider, model) == provider \o ":" \o model

\* an endpoint that appends whatever it is given
add_key_always(favs, key) == Append(favs, key)

\* `if key not in favs: favs.append(key)`
add_key(favs, key) == IF contains(favs, key) THEN favs ELSE Append(favs, key)

\* list.remove(x): the first x is taken out
RECURSIVE list_remove(_, _)
list_remove(list, x) ==
    IF list = <<>> THEN <<>>
    ELSE IF Head(list) = x THEN Tail(list)
    ELSE <<Head(list)>> \o list_remove(Tail(list), x)

\* `if key in favs: favs.remove(key)`
remove_key(favs, key) == IF contains(favs, key) THEN list_remove(favs, key) ELSE favs

FavUnchanged ==
    UNCHANGED <<boot, others, start, wire, environ, dotenv, key_ops, sdk, daemon,
                req, pc, content, had_content, left, result, raised, events, log>>

\* the response of a favourites endpoint; 500 is what Flask answers when the
\* handler raises
FavResponse(op, key, status, favorites) ==
    fav' = [op |-> op, key |-> key, status |-> status, favorites |-> favorites,
            before |-> providers_json.favorites]

\* load, change the list, write: lines 571-577 and 585-591
FavStore(op, key, favs_of(_, _), io_ok) ==
    LET loaded == load_providers_json(providers_json, io_ok)
    IN  IF loaded.raised # <<>>
        THEN /\ FavResponse(op, key, 500, <<>>)
             /\ providers_json' = loaded.file
        ELSE LET favs == favs_of(loaded.data.favorites, key)
                 data == [loaded.data EXCEPT !.favorites = favs]
                 w == write_providers_json(loaded.file, data, io_ok)
             IN  /\ providers_json' = w.file
                 /\ IF w.raised # <<>>
                    THEN FavResponse(op, key, 500, <<>>)
                    ELSE FavResponse(op, key, 200, favs)

\* POST /api/favorites
api_add_favorite(body_provider, body_model, io_ok) ==
    /\ pc = "idle" /\ start.pc = "idle" /\ boot.pc = "idle"
    /\ LET provider == str(strip(body_provider))
           model == str(strip(body_model))
           key == favorite_key(provider, model)
       IN  IF provider = "" \/ model = ""
           THEN /\ FavResponse("add", key, 400, <<>>)
                /\ UNCHANGED providers_json
           ELSE IF ~validate_provider_model(providers_json, provider, model, io_ok)
           THEN /\ FavResponse("add", key, 400, <<>>)
                /\ providers_json' = load_providers_json(providers_json, io_ok).file
           ELSE FavStore("add", key, add_key, io_ok)
    /\ listing' = NoListing
    /\ FavUnchanged

\* DELETE /api/favorites
api_remove_favorite(arg_provider, arg_model, io_ok) ==
    /\ pc = "idle" /\ start.pc = "idle" /\ boot.pc = "idle"
    /\ LET provider == str(strip(arg_provider))
           model == str(strip(arg_model))
           key == favorite_key(provider, model)
       IN  IF provider = "" \/ model = ""
           THEN /\ FavResponse("remove", key, 400, <<>>)
                /\ UNCHANGED providers_json
           ELSE FavStore("remove", key, remove_key, io_ok)
    /\ listing' = NoListing
    /\ FavUnchanged

\* an entry an earlier initialisation wrote
StaleOllama == ollama_provider(<<"llama2:7b">>)

\* what providers.json holds when the application is imported: the template's
\* copy, a file earlier initialisations or an editor left, no file, no JSON
PriorConfigs ==
    { Template,
      Config(<<Template.providers[1], StaleOllama>>, <<"openai:gpt-4o">>),
      Config(<<StaleOllama, Template.providers[1], ollama_provider(<<"mistral:7b">>)>>, <<>>),
      Config(<<>>, <<>>),
      FileMissing, FileCorrupt }

InitRegistry ==
    /\ InitProcess
    /\ dotenv = [k \in KeyVars |-> Unset]
    /\ sdk \in {Libraries, Libraries \ {"requests"}}
    /\ providers_json \in PriorConfigs
    /\ boot = NoBoot
    /\ listing = NoListing
    /\ fav = NoFavorite
    /\ fs = NoFiles
    /\ io = NoThreads
    /\ db = NoTables
    /\ tx = <<>>
    /\ http = NoHttp

NextRegistry ==
    \/ \E outcome \in TagsOutcomes : ListModels(outcome)
    \/ initialize_ollama_with_app
    \/ BootLoad
    \/ BootAvailable
    \/ BootStart
    \/ StartProbe
    \/ StartInstalled
    \/ StartSpawn
    \/ StartSleep
    \/ StartReprobe
    \/ BootStarted
    \/ BootList
    \/ BootWrite
    \/ BootDone
    \/ DaemonStarts
    \/ DaemonStops

SpecRegistry == InitRegistry /\ [][NextRegistry]_vars

\* the favourites endpoints on their own, over every configuration
InitFavorites ==
    /\ InitRegistry
    /\ sdk = Libraries
    /\ ~daemon

NextFavorites ==
    \/ \E provider \in FavProviders, model \in FavModels, io_ok \in BOOLEAN :
          api_add_favorite(provider, model, io_ok)
    \/ \E provider \in FavProviders, model \in FavModels, io_ok \in BOOLEAN :
          api_remove_favorite(provider, model, io_ok)

SpecFavorites == InitFavorites /\ [][NextFavorites]_vars

-----------------------------------------------------------------------------
(* Properties of the provider registry *)

\* the elements of a list
Elements(s) == { s[i] : i \in 1..Len(s) }

\* a list of model names in strictly ascending order: sorted, nothing twice
Ascending(s) == \A i \in 1..Len(s) - 1 : rank(s[i]) < rank(s[i + 1])

\* what the last call of get_ollama_models met
Met == listing.met[1]

\* the daemon answered the last listing with status 200 and a list of models
Listed ==
    /\ listing.met # <<>>
    /\ Met.requests /\ Met.running
    /\ Met.outcome.error = <<>> /\ Met.outcome.status = 200

\* C21: get_ollama_models returns the non-empty model names the daemon's
\* answer lists, each once, in ascending order; it returns the empty list, and
\* raises nothing, when the daemon is not running, requests is missing, the
\* status is not 200 or the request fails.
C21_ListingSortedAndUnique ==
    listing.met # <<>> =>
        /\ listing.raised = <<>>
        /\ IF Listed
           THEN /\ Elements(listing.ret) = Elements(Met.outcome.models) \ {""}
                /\ Ascending(listing.ret)
           ELSE listing.ret = <<>>

\* the daemon listed a name twice and two names out of order, and the
\* listing has the two names in order
C21_Witness ==
    /\ Listed
    /\ Met.outcome.models = <<"llama2:7b", "codellama:13b", "llama2:7b">>
    /\ listing.ret = <<"codellama:13b", "llama2:7b">>

\* initialize_ollama_with_app has returned after writing the configuration
BootWritten == boot.pc = "done" /\ boot.wrote # <<>>

\* the entries of a provider list whose id is "ollama", and the others
OllamaEntries(providers) == SelectSeq(providers, LAMBDA p : p.id = "ollama")

OtherEntries(providers) == SelectSeq(providers, LAMBDA p : p.id # "ollama")

\* C22: the configuration initialize_ollama_with_app writes holds at most one
\* "ollama" entry, whatever the configuration it loaded held; the entry is
\* there exactly when Ollama is installed, start_ollama_server reported the
\* daemon running and at least one model was listed, and it carries the
\* listed models; the other entries are the loaded ones, unchanged and in order.
C22_OneOllamaEntry ==
    BootWritten =>
        LET written == boot.wrote[1].providers
            listed == /\ boot.available = "True"
                      /\ boot.started = "True"
                      /\ boot.models # <<>>
        IN  /\ providers_json = boot.wrote[1]
            /\ Len(OllamaEntries(written)) <= 1
            /\ (OllamaEntries(written) # <<>>) <=> listed
            /\ listed => /\ OllamaEntries(written)[1].models = boot.models
                         /\ boot.models = listing.ret
            /\ OtherEntries(written) = OtherEntries(boot.prior.providers)

\* the loaded configuration held two "ollama" entries around another provider,
\* the daemon listed two models, and the written one holds a single entry
C22_Witness ==
    /\ BootWritten
    /\ Len(OllamaEntries(boot.prior.providers)) = 2
    /\ Len(OtherEntries(boot.prior.providers)) = 1
    /\ Len(boot.wrote[1].providers) = 2
    /\ boot.wrote[1].providers[2] = ollama_provider(<<"codellama:13b", "llama2:7b">>)

\* initialize_ollama_with_app has returned
Booted == boot.pc = "done"

\* the models were asked for from a daemon that had answered the probe, and
\* the request failed or was answered with an error status
ListingFailed ==
    /\ listing.met # <<>>
    /\ Met.requests /\ Met.running
    /\ (Met.outcome.error # <<>> \/ Met.outcome.status # 200)

\* a step of the initialisation failed: an exception ended it, the daemon
\* could not be started, or the models could not be listed
StepFailed ==
    \/ boot.wrote = <<>>
    \/ boot.started = "False"
    \/ ListingFailed

\* C23: initialize_ollama_with_app raises nothing to its caller; an exception
\* of any step is caught and logged as an error, in place of the write; a
\* daemon that does not start and a listing that fails are logged by nobody:
\* the configuration is then written without an "ollama" entry.
C23_BootNeverRaises ==
    /\ boot.raised = <<>>
    /\ Booted =>
          /\ (boot.wrote = <<>>) <=> (boot.error # <<>>)
          /\ (boot.wrote # <<>> /\ (boot.started = "False" \/ ListingFailed)) =>
                OllamaEntries(boot.wrote[1].providers) = <<>>

\* the installation check raised PermissionError: logged, nothing written,
\* nothing raised
C23_Witness ==
    /\ Booted
    /\ boot.raised = <<>>
    /\ boot.wrote = <<>>
    /\ boot.available = None
    /\ boot.error = <<"Error initializing Ollama: [Errno 13] Permission denied: 'ollama'">>

\* C23 as stated: nothing is raised and every failed step is logged
C23_EveryFailureLogged ==
    /\ boot.raised = <<>>
    /\ (Booted /\ StepFailed) => boot.error # <<>>

-----------------------------------------------------------------------------
(* Properties of the favourites *)

\* no element of the list occurs twice
NoDuplicates(s) == \A i, j \in 1..Len(s) : s[i] = s[j] => i = j

\* the "provider:model" keys of the pairs the configuration lists
KnownKeys ==
    UNION { { favorite_key(providers_json.providers[i].id, m) :
                m \in Elements(providers_json.providers[i].models) } :
            i \in 1..Len(providers_json.providers) }

Favorites == providers_json.favorites

\* C26: the favourites never hold a key twice; after an accepted POST the key
\* is in the list, and the list is the one before when the key was in it
\* already; after an accepted DELETE the key is not in the list; a POST for a
\* pair the configuration does not list is answered 400 and changes nothing.
C26_FavoritesAreASet ==
    /\ NoDuplicates(Favorites)
    /\ (fav.op = "add" /\ fav.status = 200) =>
          /\ contains(Favorites, fav.key)
          /\ fav.favorites = Favorites
          /\ contains(fav.before, fav.key) => Favorites = fav.before
    /\ (fav.op = "remove" /\ fav.status = 200) =>
          /\ ~contains(Favorites, fav.key)
          /\ fav.favorites = Favorites
    /\ (fav.op = "add" /\ fav.key \notin KnownKeys) =>
          /\ fav.status = 400
          /\ Favorites = fav.before

\* a pair that was a favourite already, next to another one, is added again
\* and the list of two is as it was
C26_Witness ==
    /\ fav.op = "add" /\ fav.status = 200
    /\ contains(fav.before, fav.key)
    /\ Len(fav.before) = 2
    /\ Favorites = fav.before

-----------------------------------------------------------------------------
(* providers.json on disk, written and read by the server's threads           *)
(* (src/utils.py lines 261-305).  write_providers_json dumps into the one     *)
(* path providers.json.tmp and renames it; a file object flushes its text in  *)
(* blocks; json.load reads the open file in one go.                           *)

FilesUnchanged == UNCHANGED <<core, registry, db, tx, http>>

\* the inodes a path or an open descriptor refers to
Referenced(paths, threads) ==
    {paths.tmp, paths.target} \cup { threads[t].fd : t \in Threads }

\* an inode nothing refers to is gone
Unlink(paths, threads) ==
    [paths EXCEPT !.files = [i \in Inodes |->
        IF i \in Referenced(paths, threads) THEN paths.files[i] ELSE <<>>]]

\* the bytes of an absent block
Hole == Block("zero", 0, 0)

\* write(fd, block) at an offset: blocks before it stay, a gap reads as zeros
write_at(file, pos, block) ==
    [i \in 1..(IF Len(file) > pos + 1 THEN Len(file) ELSE pos + 1) |->
        IF i = pos + 1 THEN block
        ELSE IF i <= Len(file) THEN file[i] ELSE Hole]

\* a thread enters write_providers_json(data)
WriteCall(t, text) ==
    /\ io[t].pc = "idle"
    /\ io' = [io EXCEPT ![t] = [NoThread EXCEPT !.pc = "open", !.text = text]]
    /\ UNCHANGED fs
    /\ FilesUnchanged

\* line 303: open(tmp_path, "w"): the file the path names, emptied, or a new one
open_tmp(paths, threads) ==
    IF paths.tmp # 0 THEN paths.tmp
    ELSE CHOOSE i \in Inodes : i \notin Referenced(paths, threads)

WriteOpen(t) ==
    /\ io[t].pc = "open"
    /\ LET fd == open_tmp(fs, io)
       IN  /\ fs' = [fs EXCEPT !.tmp = fd, !.files[fd] = <<>>]
           /\ io' = [io EXCEPT ![t].pc = "dump", ![t].fd = fd, ![t].pos = 0]
    /\ FilesUnchanged

\* line 304: json.dump(data, f): the next block goes to the descriptor
WriteDump(t) ==
    /\ io[t].pc = "dump"
    /\ io[t].pos < Len(io[t].text)
    /\ fs' = [fs EXCEPT !.files[io[t].fd] =
                 write_at(fs.files[io[t].fd], io[t].pos, io[t].text[io[t].pos + 1])]
    /\ io' = [io EXCEPT ![t].pos = io[t].pos + 1]
    /\ FilesUnchanged

\* the end of the with block: the file is closed
WriteClose(t) ==
    /\ io[t].pc = "dump"
    /\ io[t].pos = Len(io[t].text)
    /\ io' = [io EXCEPT ![t].pc = "replace", ![t].fd = 0]
    /\ fs' = Unlink(fs, io')
    /\ FilesUnchanged

\* line 305: os.replace(tmp_path, providers_json_path)
WriteReplace(t) ==
    /\ io[t].pc = "replace"
    /\ IF fs.tmp = 0
       THEN /\ io' = [io EXCEPT ![t].pc = "idle",
                         ![t].raised = <<Exc("FileNotFoundError", "providers.json.tmp")>>]
            /\ UNCHANGED fs
       ELSE /\ io' = [io EXCEPT ![t].pc = "idle"]
            /\ fs' = Unlink([fs EXCEPT !.target = fs.tmp, !.tmp = 0], io')
    /\ FilesUnchanged

\* a thread enters load_providers_json
LoadCall(t) ==
    /\ io[t].pc = "idle"
    /\ io' = [io EXCEPT ![t] = [NoThread EXCEPT !.pc = "load"]]
    /\ UNCHANGED fs
    /\ FilesUnchanged

\* line 272: open(self.providers_json_path, "r")
LoadOpen(t) ==
    /\ io[t].pc = "load"
    /\ io' = [io EXCEPT ![t].pc = "read", ![t].fd = fs.target]
    /\ UNCHANGED fs
    /\ FilesUnchanged

\* line 273: json.load(f) reads what the file holds now
LoadRead(t) ==
    /\ io[t].pc = "read"
    /\ io' = [io EXCEPT ![t].pc = "idle", ![t].fd = 0,
                         ![t].got = <<fs.files[io[t].fd]>>]
    /\ fs' = Unlink(fs, io')
    /\ FilesUnchanged

InitFiles ==
    /\ Init
    /\ dotenv = [k \in KeyVars |-> Unset]
    /\ sdk = Libraries
    /\ ~daemon

NextFiles ==
    \/ \E t \in Writers : \E text \in TextsOf(t) : WriteCall(t, text)
    \/ \E t \in Writers : WriteOpen(t)
    \/ \E t \in Writers : WriteDump(t)
    \/ \E t \in Writers : WriteClose(t)
    \/ \E t \in Writers : WriteReplace(t)
    \/ \E t \in Readers : LoadCall(t)
    \/ \E t \in Readers : LoadOpen(t)
    \/ \E t \in Readers : LoadRead(t)

SpecFiles == InitFiles /\ [][NextFiles]_vars

\* what a reader may be handed: the whole text of one call, or the first file's
WholeTexts == ConfigTexts \cup {TemplateDump}

\* C29: a thread that loads providers.json while others write it gets the
\* whole text of one write_providers_json call, never a part of one and never
\* the texts of two calls mixed.
C29_ReaderSeesOneWholeWrite ==
    \A t \in Readers :
        (io[t].pc = "idle" /\ io[t].got # <<>>) => io[t].got[1] \in WholeTexts

-----------------------------------------------------------------------------
(* The SQLite database (src/database.py).  Every helper runs on the        *)
(* connection get_db opens for the request, with foreign keys enforced; it *)
(* commits nothing; the connection is closed when the request ends, and    *)
(* what was not committed is lost.  Timestamps are left out.               *)

\* chats the database may come to hold
MaxChats == 2

\* messages the database may come to hold
MaxMessages == 3

ChatRow(title, provider, model) == [title |-> title, provider |-> provider, model |-> model]

MessageRow(chat_id, role, text, provider, model) ==
    [chat_id |-> chat_id, role |-> role, content |-> text,
     provider |-> provider, model |-> model]

\* get_db: the view of the request's connection, the committed rows at first
conn == IF tx = <<>> THEN db ELSE tx[1]

\* the function f without the key k
drop(f, k) == [x \in DOMAIN f \ {k} |-> f[x]]

\* a statement's outcome: the tables after it, what it returned, what it raised
Ran(tables, ret) == [tables |-> tables, ret |-> ret, raised |-> <<>>]

Broke(tables, e) == [tables |-> tables, ret |-> 0, raised |-> <<e>>]

\* create_chat: INSERT INTO chats; cur.lastrowid
create_chat(t, title, provider, model) ==
    LET id == t.seq + 1
    IN  Ran([t EXCEPT !.chats = (id :> ChatRow(title, provider, model)) @@ t.chats,
                       !.seq = id], id)

\* update_chat_meta: UPDATE chats SET provider, model WHERE id = ?
update_chat_meta(t, chat_id, provider, model) ==
    IF chat_id \in DOMAIN t.chats
    THEN Ran([t EXCEPT !.chats[chat_id].provider = provider,
                        !.chats[chat_id].model = model], 0)
    ELSE Ran(t, 0)

\* insert_message: the role is checked, then INSERT INTO messages; the
\* foreign key of chat_id is enforced
insert_message(t, chat_id, role, text, provider, model) ==
    IF role \notin {"user", "assistant"}
    THEN Broke(t, Exc("ValueError",
                       "Invalid role: " \o role \o ". Must be 'user' or 'assistant'"))
    ELSE IF chat_id \notin DOMAIN t.chats
    THEN Broke(t, Exc("IntegrityError", "FOREIGN KEY constraint failed"))
    ELSE Ran([t EXCEPT !.messages =
                   Append(t.messages, MessageRow(chat_id, role, text, provider, model))], 0)

\* get_chat: the row, or None
get_chat(t, chat_id) == IF chat_id \in DOMAIN t.chats THEN <<t.chats[chat_id]>> ELSE <<>>

\* get_messages: SELECT ... WHERE chat_id = ? ORDER BY id ASC
get_messages(t, chat_id) == SelectSeq(t.messages, LAMBDA m : m.chat_id = chat_id)

\* DELETE FROM messages WHERE chat_id = ?
delete_messages(t, chat_id) ==
    [t EXCEPT !.messages = SelectSeq(t.messages, LAMBDA m : m.chat_id # chat_id)]

\* a connection on which PRAGMA foreign_keys was not set
on_delete_nothing(t, chat_id) == t

\* FOREIGN KEY(chat_id) REFERENCES chats(id) ON DELETE CASCADE, enforced
\* because get_db sets PRAGMA foreign_keys = ON
on_delete_cascade(t, chat_id) == delete_messages(t, chat_id)

\* DELETE FROM chats WHERE id = ?
delete_chat_row(t, chat_id) ==
    IF chat_id \in DOMAIN t.chats
    THEN on_delete_cascade([t EXCEPT !.chats = drop(t.chats, chat_id)], chat_id)
    ELSE t

\* delete_chat: the messages first, then the chat
delete_chat(t, chat_id) == Ran(delete_chat_row(delete_messages(t, chat_id), chat_id), 0)

\* delete_all_history: DELETE FROM messages; DELETE FROM chats
delete_all_history(t) ==
    Ran([t EXCEPT !.messages = <<>>, !.chats = <<>>],
         [chats |-> Cardinality(DOMAIN t.chats), messages |-> Len(t.messages)])

\* commit: the connection's view becomes the committed state
commit(view) == view

\* a teardown that commits what is pending
close_db_commit(committed, view) == view

\* close_db: db.close(); what was not committed is rolled back
close_db(committed, view) == committed

\* the database helpers called one after the other on one connection, as the
\* routes and the tests call them
StoreUnchanged == UNCHANGED <<core, registry, fs, io>>

\* the helper that ran last, on which rows, and what it raised
Helper(op, args, out) ==
    http' = [NoHttp EXCEPT !.op = op, !.args = args, !.raised = out.raised,
                           !.before = IF op \in {"delete_chat", "delete_row"}
                                      THEN conn ELSE NoTables]

\* a statement changes the connection's view; one that raises changes nothing
Execute(out) == tx' = <<out.tables>>

StoreCreate(provider, model) ==
    /\ conn.seq < MaxChats
    /\ LET out == create_chat(conn, "Test Chat", provider, model)
       IN  Execute(out) /\ Helper("create_chat", <<out.ret>>, out)
    /\ UNCHANGED db
    /\ StoreUnchanged

StoreInsert(chat_id, role, provider, model) ==
    /\ Len(conn.messages) < MaxMessages
    /\ LET out == insert_message(conn, chat_id, role, "Hello", provider, model)
       IN  Execute(out) /\ Helper("insert_message", <<chat_id>>, out)
    /\ UNCHANGED db
    /\ StoreUnchanged

StoreDeleteChat(chat_id) ==
    /\ LET out == delete_chat(conn, chat_id)
       IN  Execute(out) /\ Helper("delete_chat", <<chat_id>>, out)
    /\ UNCHANGED db
    /\ StoreUnchanged

\* db.execute("DELETE FROM chats WHERE id = ?", (chat_id,))
StoreDeleteRow(chat_id) ==
    /\ LET out == Ran(delete_chat_row(conn, chat_id), 0)
       IN  Execute(out) /\ Helper("delete_row", <<chat_id>>, out)
    /\ UNCHANGED db
    /\ StoreUnchanged

StoreDeleteAll ==
    /\ LET out == delete_all_history(conn)
       IN  Execute(out) /\ Helper("delete_all_history", <<>>, out)
    /\ UNCHANGED db
    /\ StoreUnchanged

StoreCommit ==
    /\ tx # <<>>
    /\ db' = commit(conn)
    /\ tx' = <<>>
    /\ http' = [NoHttp EXCEPT !.op = "commit"]
    /\ StoreUnchanged

\* the request or the application context ends
StoreClose ==
    /\ tx # <<>>
    /\ db' = close_db(db, conn)
    /\ tx' = <<>>
    /\ http' = [NoHttp EXCEPT !.op = "close"]
    /\ StoreUnchanged

\* the chat ids a caller may name: the ones given out so far and one more
ChatIds == 1..(MaxChats + 1)

\* the roles a caller may give a message
StoreRoles == {"user", "system"}

InitStore ==
    /\ Init
    /\ dotenv = [k \in KeyVars |-> Unset]
    /\ sdk = Libraries
    /\ ~daemon

NextStore ==
    \/ StoreCreate("openai", "gpt-4")
    \/ \E chat_id \in ChatIds, role \in StoreRoles :
          StoreInsert(chat_id, role, "openai", "gpt-4")
    \/ \E chat_id \in ChatIds : StoreDeleteChat(chat_id)
    \/ \E chat_id \in ChatIds : StoreDeleteRow(chat_id)
    \/ StoreDeleteAll
    \/ StoreCommit
    \/ StoreClose

SpecStore == InitStore /\ [][NextStore]_vars

\* no message of the tables refers to a chat the tables do not hold
NoOrphans(t) == \A i \in 1..Len(t.messages) : t.messages[i].chat_id \in DOMAIN t.chats

\* the chat is gone for get_chat and get_messages
Gone(t, chat_id) == get_chat(t, chat_id) = <<>> /\ get_messages(t, chat_id) = <<>>

\* C25: whatever create_chat, insert_message, delete_chat, a direct delete of
\* the chat's row and delete_all_history did, committed or not, no message
\* refers to a chat that is not there; after a chat was deleted get_chat finds
\* nothing and get_messages returns the empty list.
C25_NoOrphanMessages ==
    /\ NoOrphans(db)
    /\ NoOrphans(conn)
    /\ http.op \in {"delete_chat", "delete_row"} => Gone(conn, http.args[1])
    /\ http.op = "delete_all_history" => \A c \in ChatIds : Gone(conn, c)

\* the row of a chat with two messages was deleted directly, next to a chat
\* whose message stays
C25_Witness ==
    /\ http.op = "delete_row"
    /\ Len(get_messages(http.before, http.args[1])) = 2
    /\ Len(http.before.messages) = 3
    /\ Len(conn.messages) = 1
    /\ Gone(conn, http.args[1])

-----------------------------------------------------------------------------
(* POST /api/chat (src/app.py lines 132-213) *)

\* exchanges the chats may come to hold
MaxExchanges == 2

\* what the client posts: message, provider and model as typed, the chat's id
\* (0 when the body has none)
ChatBodies ==
    [message : Messages,
     provider : { <<" ">>, <<" ", "O", "p", "e", "n", "A", "I">>,
                  <<"O", "l", "l", "a", "m", "a", " ">>, <<"g", "r", "o", "k">> },
     model : { <<>>, <<"g", "p", "t", "-", "4">> },
     chat_id : {0} \cup ChatIds]

\* validate_chat_request: each field stripped, the first empty one rejected
validate_chat_request(data) ==
    IF strip(data.message) = <<>> THEN Threw(Exc("ValueError", "message is required"))
    ELSE IF strip(data.provider) = <<>> THEN Threw(Exc("ValueError", "provider is required"))
    ELSE IF strip(data.model) = <<>> THEN Threw(Exc("ValueError", "model is required"))
    ELSE Gave(<<strip(data.message), strip(data.provider), strip(data.model)>>)

\* a call of database.create_chat with positional arguments: the function takes
\* title, provider, model and now
call_create_chat(t, args) ==
    IF Len(args) > 4
    THEN Broke(t, Exc("TypeError",
                      "create_chat() takes from 3 to 4 positional arguments but 5 were given"))
    ELSE create_chat(t, args[1], args[2], args[3])

\* create_or_update_chat: a request without chat_id creates the chat, passing
\* create_chat five arguments; one with a chat_id updates its metadata
create_or_update_chat(t, chat_id, title, provider, model) ==
    IF chat_id = 0
    THEN call_create_chat(t, <<title, provider, model, "now", None>>)
    ELSE LET out == update_chat_meta(t, chat_id, provider, model)
         IN  Ran(out.tables, chat_id)

\* the response of api_chat: `except ValueError` answers 400, `except Exception`
\* 500; anything else leaves the handler
status_of(e) ==
    IF e.cls = "ValueError" THEN 400 ELSE IF except_Exception(e) THEN 500 ELSE 0

ChatUnchanged ==
    UNCHANGED <<registry, fs, io, start, wire, environ, dotenv, key_ops, sdk, daemon>>

\* the call state of the generation layer when no call is in flight
NoCall ==
    /\ req' = NoRequest
    /\ pc' = "idle"
    /\ content' = None
    /\ had_content' = FALSE
    /\ left' = 0
    /\ result' = <<>>
    /\ raised' = <<>>
    /\ events' = <<>>
    /\ log' = <<>>

\* the handler ends in an except clause: nothing was committed, the teardown
\* closes the connection
ChatFails(data, view, e) ==
    /\ http' = [http EXCEPT !.op = "api_chat", !.pc = "idle", !.args = <<data>>,
                            !.status = status_of(e), !.raised = <<e>>, !.reply = <<>>,
                            !.before = db, !.pending = view]
    /\ db' = close_db(db, view)
    /\ tx' = <<>>

\* lines 149-176: validation, the chat, the user's message, the call
api_chat(data) ==
    /\ pc = "idle" /\ start.pc = "idle" /\ http.pc = "idle"
    /\ Len(db.messages) < 2 * MaxExchanges
    /\ LET valid == validate_chat_request(data)
       IN  IF valid.raised # <<>>
           THEN ChatFails(data, db, valid.raised[1]) /\ NoCall
           ELSE
           LET message == valid.ret[1]
               provider == valid.ret[2]
               model == valid.ret[3]
               chat == create_or_update_chat(db, data.chat_id, str(message),
                                             str(provider), str(model))
               user == insert_message(chat.tables, chat.ret, "user", str(message),
                                      str(provider), str(model))
           IN  IF chat.raised # <<>>
               THEN ChatFails(data, chat.tables, chat.raised[1]) /\ NoCall
               ELSE IF user.raised # <<>>
               THEN ChatFails(data, user.tables, user.raised[1]) /\ NoCall
               ELSE /\ http' = [http EXCEPT !.op = "api_chat", !.pc = "generating",
                                    !.args = <<[data EXCEPT !.chat_id = chat.ret]>>,
                                    !.status = 0, !.raised = <<>>, !.reply = <<>>,
                                    !.before = db, !.pending = NoTables]
                    /\ tx' = <<user.tables>>
                    /\ UNCHANGED db
                    /\ req' = [fn |-> "generate_reply", provider |-> provider,
                               model |-> model, message |-> message]
                    /\ pc' = "validate"
                    /\ content' = None
                    /\ had_content' = FALSE
                    /\ left' = 0
                    /\ result' = <<>>
                    /\ raised' = <<>>
                    /\ events' = <<>>
                    /\ log' = <<>>
    /\ ChatUnchanged

\* a handler that stores the reply only when it carries no error
store_reply_unless_error(t, chat_id, reply_obj, provider, model) ==
    IF Truthy(reply_obj.error) THEN Ran(t, 0)
    ELSE insert_message(t, chat_id, "assistant", reply_obj.reply, provider, model)

\* lines 185-192: the reply is stored, with or without an error
store_reply(t, chat_id, reply_obj, provider, model) ==
    insert_message(t, chat_id, "assistant", reply_obj.reply, provider, model)

\* lines 177-213: generate_reply has returned or raised
ChatReplied ==
    /\ http.pc = "generating"
    /\ pc = "done"
    /\ LET data == http.args[1]
       IN  IF raised # <<>>
           THEN ChatFails(data, conn, raised[1])
           ELSE LET stored == store_reply(conn, data.chat_id, result[1],
                                          str(req.provider), str(req.model))
                IN  IF stored.raised # <<>>
                    THEN ChatFails(data, stored.tables, stored.raised[1])
                    ELSE /\ db' = close_db(commit(stored.tables), commit(stored.tables))
                         /\ tx' = <<>>
                         /\ http' = [http EXCEPT !.pc = "idle", !.status = 200,
                                        !.reply = result,
                                        !.served[data.chat_id] = @ + 1]
    /\ NoCall
    /\ ChatUnchanged

\* two chats exist, created by create_chat, and hold no message; the OpenAI
\* key is configured, the Gemini key is not
InitChat ==
    /\ InitCalls
    /\ InitConfig
    /\ dotenv = [k \in KeyVars |-> IF k = "OPENAI_API_KEY" THEN <<"s", "k", "-", "1">>
                                   ELSE Unset]
    /\ environ = load_dotenv(dotenv, [k \in KeyVars |-> Unset])
    /\ key_ops = [b \in {"openai", "gemini"} |-> [op |-> "none", value |-> <<>>]]
    /\ sdk = Libraries
    /\ daemon \in BOOLEAN
    /\ db = create_chat(create_chat(NoTables, "one", "openai", "gpt-4").tables,
                        "two", "openai", "gpt-4").tables
    /\ tx = <<>>
    /\ http = [NoHttp EXCEPT !.served = [c \in ChatIds |-> 0]]

NextChat ==
    \/ \E data \in ChatBodies : api_chat(data)
    \/ generate_reply
    \/ AdapterKey
    \/ AdapterBackend
    \/ ReplyRecheck
    \/ ReplyProbe
    \/ OllamaCallProbe
    \/ OllamaCallPost
    \/ ChatReplied

SpecChat == InitChat /\ [][NextChat]_vars

-----------------------------------------------------------------------------
(* POST /api/tasks/<id>/execute (src/app.py lines 1230-1353) *)

TaskRow(provider, model, output, email) ==
    [provider |-> provider, model |-> model, description |-> <<"h", "i">>,
     name |-> "Daily", output |-> output, email |-> email, status |-> "pending"]

\* the tasks create_task has stored: one saving to a chat, two mailing (one
\* without an address), one for a provider that does not exist
StoredTasks ==
    << TaskRow(<<"o", "p", "e", "n", "a", "i">>, <<"g", "p", "t", "-", "4">>, "application", ""),
       TaskRow(<<"o", "p", "e", "n", "a", "i">>, <<"g", "p", "t", "-", "4">>, "email", "a@b.c"),
       TaskRow(<<"o", "l", "l", "a", "m", "a">>, <<"g", "p", "t", "-", "4">>, "email", ""),
       TaskRow(<<"g", "r", "o", "k">>, <<"g", "p", "t", "-", "4">>, "application", "") >>

\* get_task: the row as a dict, or None
get_task(t, task_id) == IF task_id \in DOMAIN t.tasks THEN <<t.tasks[task_id]>> ELSE <<>>

\* update_task_status: UPDATE tasks SET status = ? WHERE id = ?
update_task_status(t, task_id, status) ==
    IF task_id \in DOMAIN t.tasks
    THEN [t EXCEPT !.tasks[task_id].status = status]
    ELSE t

\* send_task_email: sent, refused with an error, or an exception of the mail setup
EmailOutcomes ==
    { [success |-> TRUE, raised |-> <<>>],
      [success |-> FALSE, raised |-> <<>>],
      [success |-> FALSE, raised |-> <<Exc("ValueError", "invalid literal for int()")>>] }

\* a handler whose except clause only passes the exception on
on_execution_error_reraise(t, task_id) == t

\* lines 1346-1349: `except Exception`: the task is marked failed and committed
on_execution_error(t, task_id) == commit(update_task_status(t, task_id, "failed"))

TaskUnchanged ==
    UNCHANGED <<registry, fs, io, start, wire, environ, dotenv, key_ops, sdk, daemon>>

\* the handler returns: the response, what was committed, the connection closed
TaskAnswers(task_id, status, committed, sent, e) ==
    /\ http' = [NoHttp EXCEPT !.op = "api_execute_task", !.args = <<task_id, sent>>,
                              !.status = status, !.before = http.before,
                              !.reply = result, !.raised = e]
    /\ db' = close_db(committed, committed)
    /\ tx' = <<>>

\* lines 1238-1255: the task is looked up, marked running, and the reply asked for
api_execute_task(task_id) ==
    /\ pc = "idle" /\ start.pc = "idle" /\ http.pc = "idle"
    /\ db.seq < MaxChats
    /\ IF get_task(db, task_id) = <<>>
       THEN /\ http' = [NoHttp EXCEPT !.op = "api_execute_task", !.args = <<task_id, "">>,
                                      !.status = 404, !.before = db]
            /\ UNCHANGED <<db, tx>>
            /\ NoCall
       ELSE LET task == get_task(db, task_id)[1]
            IN  /\ db' = commit(update_task_status(db, task_id, "running"))
                /\ tx' = <<db'>>
                /\ http' = [NoHttp EXCEPT !.op = "api_execute_task", !.pc = "generating",
                                          !.args = <<task_id, "">>, !.before = db]
                /\ req' = [fn |-> "generate_reply", provider |-> task.provider,
                           model |-> task.model, message |-> task.description]
                /\ pc' = "validate"
                /\ content' = None
                /\ had_content' = FALSE
                /\ left' = 0
                /\ result' = <<>>
                /\ raised' = <<>>
                /\ events' = <<>>
                /\ log' = <<>>
    /\ TaskUnchanged

\* lines 1311-1331: the reply is saved as a chat of two messages
save_to_application(t, task, reply) ==
    LET chat == create_chat(t, "Task: " \o task.name, str(task.provider), str(task.model))
        user == insert_message(chat.tables, chat.ret, "user", str(task.description),
                               None, None)
    IN  IF user.raised # <<>> THEN user
        ELSE insert_message(user.tables, chat.ret, "assistant", reply, None, None)

\* lines 1255-1353: generate_reply has returned or raised
TaskReplied ==
    /\ http.op = "api_execute_task"
    /\ http.pc = "generating"
    /\ pc = "done"
    /\ LET task_id == http.args[1]
           task == get_task(conn, task_id)[1]
           failed == commit(update_task_status(conn, task_id, "failed"))
       IN  IF raised # <<>>
           THEN IF except_Exception(raised[1])
                THEN TaskAnswers(task_id, 500, on_execution_error(conn, task_id), "", raised)
                ELSE TaskAnswers(task_id, 0, conn, "", raised)
           ELSE IF Truthy(result[1].error)
           THEN TaskAnswers(task_id, 500, failed, "", <<>>)
           ELSE IF task.output = "email"
           THEN IF task.email = ""
                THEN TaskAnswers(task_id, 400, failed, "", <<>>)
                ELSE \E mail \in EmailOutcomes :
                        IF mail.raised # <<>>
                        THEN TaskAnswers(task_id, 500, on_execution_error(conn, task_id),
                                         "raised", mail.raised)
                        ELSE IF ~mail.success
                        THEN TaskAnswers(task_id, 500, failed, "refused", <<>>)
                        ELSE TaskAnswers(task_id, 200,
                                 commit(update_task_status(conn, task_id, "completed")),
                                 "sent", <<>>)
           ELSE LET saved == save_to_application(conn, task, result[1].reply)
                IN  IF saved.raised # <<>>
                    THEN TaskAnswers(task_id, 500, on_execution_error(saved.tables, task_id),
                                     "", saved.raised)
                    ELSE TaskAnswers(task_id, 200,
                             commit(update_task_status(commit(saved.tables), task_id,
                                                       "completed")),
                             "saved", <<>>)
    /\ NoCall
    /\ TaskUnchanged

\* create_task has stored the tasks; the OpenAI key is configured
InitTasks ==
    /\ InitCalls
    /\ InitConfig
    /\ dotenv = [k \in KeyVars |-> IF k = "OPENAI_API_KEY" THEN <<"s", "k", "-", "1">>
                                   ELSE Unset]
    /\ environ = load_dotenv(dotenv, [k \in KeyVars |-> Unset])
    /\ key_ops = [b \in {"openai", "gemini"} |-> [op |-> "none", value |-> <<>>]]
    /\ sdk = Libraries
    /\ daemon \in BOOLEAN
    /\ db = [NoTables EXCEPT !.tasks = StoredTasks]
    /\ tx = <<>>
    /\ http = NoHttp

NextTasks ==
    \/ \E task_id \in 1..(Len(StoredTasks) + 1) : api_execute_task(task_id)
    \/ generate_reply
    \/ AdapterKey
    \/ AdapterBackend
    \/ ReplyRecheck
    \/ ReplyProbe
    \/ OllamaCallProbe
    \/ OllamaCallPost
    \/ TaskReplied

SpecTasks == InitTasks /\ [][NextTasks]_vars

-----------------------------------------------------------------------------

(* Properties of key removal *)

\* the variable of a provider holds the same in the process and in the .env file
KeyAgrees(provider) == environ'[key_mapping(provider)] = dotenv'[key_mapping(provider)]

\* C30: whenever delete_api_key returns True for a known provider, the
\* provider's credential is absent from the process environment when the call
\* returns, also when removing the entry from the .env file raised an exception
\* that was swallowed; the credential of the process and the one of the .env
\* file agree after every update_api_keys or delete_api_key call.
C30_RemovedKeyIsGone ==
    [][ /\ \A provider \in BodyKeys :
              (\E io_ok \in BOOLEAN : delete_api_key(provider, io_ok)) =>
                  /\ environ'[key_mapping(provider)] = Unset
                  /\ KeyAgrees(provider)
        /\ \A keys_data \in KeysData :
              (\E io_ok \in BOOLEAN : update_api_keys(keys_data, io_ok)) =>
                  \A provider \in BodyKeys :
                      keys_data[provider] # Unset => KeyAgrees(provider) ]_vars

-----------------------------------------------------------------------------

(* Properties of POST /api/tasks/<id>/execute *)

\* the handler has returned for a task that exists
Executed ==
    /\ http.op = "api_execute_task"
    /\ http.pc = "idle"
    /\ http.status # 404

ExecutedTask == db.tasks[http.args[1]]

\* generate_reply returned a reply without an in-band error
ReplyGenerated ==
    /\ http.reply # <<>>
    /\ ~Truthy(http.reply[1].error)

\* the reply was mailed, or stored as a chat of the prompt and the reply
ReplyDelivered ==
    \/ http.args[2] = "sent"
    \/ /\ http.args[2] = "saved"
       /\ \E c \in DOMAIN db.chats :
            /\ c \notin DOMAIN http.before.chats
            /\ [i \in 1..Len(get_messages(db, c)) |-> get_messages(db, c)[i].role]
                 = <<"user", "assistant">>

\* C27: once POST /api/tasks/<id>/execute has returned for an existing task,
\* whatever the outcome, the stored status of the task is "completed" or
\* "failed", never "running", and it is "completed" only if a reply was
\* generated and delivered.
C27_ExecutedTaskIsSettled ==
    Executed =>
        /\ ExecutedTask.status \in {"completed", "failed"}
        /\ ExecutedTask.status = "completed" => ReplyGenerated /\ ReplyDelivered

\* generate_reply raised ValueError for a provider it does not know, and the
\* task is stored as failed
C27_Witness ==
    /\ Executed
    /\ http.raised # <<>>
    /\ http.raised[1].cls = "ValueError"
    /\ http.reply = <<>>
    /\ http.before.tasks[http.args[1]].status = "pending"
    /\ ExecutedTask.status = "failed"

-----------------------------------------------------------------------------

(* Properties of POST /api/chat *)

\* api_chat has answered with the status
Answered(status) == http.op = "api_chat" /\ http.pc = "idle" /\ http.status = status

\* the body of the request that was answered last
Posted == http.args[1]

\* the rows of a user's message and the reply to it, tagged alike
IsExchange(u, a) ==
    /\ u.role = "user" /\ a.role = "assistant"
    /\ u.provider = a.provider /\ u.model = a.model

====
